---- MODULE Spec2Model ----
(***************************************************************************)
(* A model of the rust-socks client: the SOCKS5 address codec (v5.rs),     *)
(* the SOCKS5 CONNECT / BIND / UDP ASSOCIATE handshakes and BIND's accept   *)
(* (v5.rs), the SOCKS4 / SOCKS4A CONNECT handshake (lib.rs) and the UDP     *)
(* relay framing (v5.rs).  Bytes are the integers 0..255, a byte string is  *)
(* a sequence of bytes, and the TCP connection to the proxy is a byte       *)
(* stream that the network may cut into segments at any place.              *)
(***************************************************************************)
EXTENDS Integers, Sequences, FiniteSets, TLC

VARIABLES
    op,         \* the entry point called: "s4connect", "connect", "bind", "associate"
    input,      \* the caller's target argument, before to_target_addr
    userid,     \* the SOCKS4 userid argument
    pc,         \* the position of the call
    target,     \* the TargetAddr the call normalised its input to
    conn,       \* the TCP connection to the proxy: "none", "open", "closed"
    opened,     \* how many TCP connections the call has opened
    sent,       \* the messages written to the proxy, one per write_all, in order
    inflight,   \* bytes the proxy has sent that have not reached the client's socket
    rcvbuf,     \* bytes that have reached the client's socket and are unread
    peerClosed, \* the proxy has closed its side of the connection
    pphase,     \* the next message of the proxy: "neg", "rep", "rep2", "data", "end"
    psent,      \* the bytes the proxy sent for each of its messages
    bufr,       \* the bytes held by the BufReader of read_response
    acc,        \* the bytes the running read has consumed so far
    discarded,  \* bytes taken from the socket and dropped with a BufReader
    result,     \* what the last call returned
    handle,     \* the object the caller holds: none, stream, listener or datagram
    accepts,    \* how many times accept has been called
    appRead,    \* the bytes returned by the session's reads, in order
    udpIn,      \* the last datagram the UDP socket received, and the buffer length
    ubuf,       \* the caller's buffer after the last recv_from
    uresult,    \* what the last recv_from returned
    udpOut,     \* the last datagram the UDP socket sent, and where to
    usent,      \* what the last send_to returned
    bindAddr,   \* the local address the caller gave Socks5Datagram::bind
    cTarget,    \* codec check: the TargetAddr to encode
    cPacket,    \* codec check: what write_addr made of it
    cDecoded    \* codec check: what read_addr made of that

\* the handshakes and the TCP connection
hvars == <<op, input, userid, pc, target, conn, opened, sent, inflight, rcvbuf,
           peerClosed, pphase, psent, bufr, acc, discarded, result, handle,
           accepts, appRead>>

\* the datagram relay
dvars == <<udpIn, ubuf, uresult, udpOut, usent, bindAddr>>

\* the codec on its own
cvars == <<cTarget, cPacket, cDecoded>>

vars == <<hvars, dvars, cvars>>

----------------------------------------------------------------------------
(* Bounds of the model *)

\* domain names of 1..MaxShortDomain bytes are tried besides the long ones
MaxShortDomain == 1
\* domain names of up to U8Max + DomainOver bytes are tried
DomainOver == 1
\* the proxy sends up to MaxData bytes of target data after its last reply
MaxData == 2
\* datagram payloads of up to MaxPayload bytes are tried
MaxPayload == 2
\* caller's buffers of up to MaxBufLen bytes are tried
MaxBufLen == 2

(* Program constants *)

\* v5.rs:8
MAX_ADDR_LEN == 260
\* u8::max_value(), v5.rs:79
U8Max == 255

----------------------------------------------------------------------------
(* Byte strings and big-endian integers (byteorder) *)

Min(a, b) == IF a < b THEN a ELSE b

Take(s, n) == SubSeq(s, 1, n)

Drop(s, n) == SubSeq(s, n + 1, Len(s))

Fill(n, b) == [i \in 1..n |-> b]

\* write_u16::<BigEndian>
write_u16(n) == <<n \div 256, n % 256>>

\* read_u16::<BigEndian> of 2 bytes
read_u16(b) == b[1] * 256 + b[2]

\* A u32 is kept as its two 16-bit halves <<high, low>>.
\* read_u32::<BigEndian> of 4 bytes
read_u32(b) == <<b[1] * 256 + b[2], b[3] * 256 + b[4]>>

\* write_u32::<BigEndian>
write_u32(w) == <<w[1] \div 256, w[1] % 256, w[2] \div 256, w[2] % 256>>

\* Ipv4Addr::from(u32): the octets of the address, most significant first
Ipv4FromU32(w) == <<w[1] \div 256, w[1] % 256, w[2] \div 256, w[2] % 256>>

\* (*addr.ip()).into(): the u32 of an address
Ipv4ToU32(ip) == <<ip[1] * 256 + ip[2], ip[3] * 256 + ip[4]>>

----------------------------------------------------------------------------
(* Addresses, targets, errors *)

\* SocketAddr::V4(SocketAddrV4::new(ip, port))
V4(ip, port) == [v |-> 4, ip |-> ip, port |-> port, flowinfo |-> 0, scope_id |-> 0]

\* SocketAddr::V6(SocketAddrV6::new(ip, port, flowinfo, scope_id)); ip is the 8 segments
V6(segs, port, flowinfo, scope_id) ==
    [v |-> 6, ip |-> segs, port |-> port, flowinfo |-> flowinfo, scope_id |-> scope_id]

NoAddr == [v |-> 0, ip |-> <<>>, port |-> 0, flowinfo |-> 0, scope_id |-> 0]

\* TargetAddr::Ip(addr)
Ip(addr) == [t |-> "Ip", addr |-> addr, host |-> <<>>, port |-> 0]

\* TargetAddr::Domain(host, port)
Domain(host, port) == [t |-> "Domain", addr |-> NoAddr, host |-> host, port |-> port]

NoTarget == [t |-> "None", addr |-> NoAddr, host |-> <<>>, port |-> 0]

\* io::Error::new(kind, msg)
Error(kind, msg) == [tag |-> "Err", kind |-> kind, msg |-> msg]

OkResult == [tag |-> "Ok", kind |-> "", msg |-> ""]

NoResult == [tag |-> "None", kind |-> "", msg |-> ""]

\* read_exact on a source that ends early
UnexpectedEof == Error("UnexpectedEof", "failed to fill whole buffer")

\* the outcome of a decoder on a byte string: done with an address after n
\* bytes, failed, or in need of more bytes
Decoded(addr, n) == [tag |-> "Ok", addr |-> addr, n |-> n, kind |-> "", msg |-> ""]

DecodeErr(kind, msg) == [tag |-> "Err", addr |-> NoAddr, n |-> 0, kind |-> kind, msg |-> msg]

Short == [tag |-> "Short", addr |-> NoAddr, n |-> 0, kind |-> "", msg |-> ""]

NoDecoded == [tag |-> "None", addr |-> NoAddr, n |-> 0, kind |-> "", msg |-> ""]

ErrorOf(d) == Error(d.kind, d.msg)

\* a packet under construction and the outcome of the function building it
NoPacket == [tag |-> "None", kind |-> "", msg |-> "", packet |-> <<>>]

----------------------------------------------------------------------------
(* The SOCKS5 address codec, v5.rs *)

\* read_addr on the bytes b that the reader can supply: the address and the
\* number of bytes consumed, an error, or Short when b ends before the
\* address does.
read_addr(b) ==
    IF Len(b) < 1 THEN Short
    ELSE CASE b[1] = 1 ->
                IF Len(b) < 7 THEN Short
                ELSE Decoded(V4(Ipv4FromU32(read_u32(SubSeq(b, 2, 5))),
                                read_u16(SubSeq(b, 6, 7))), 7)
           [] b[1] = 4 ->
                IF Len(b) < 19 THEN Short
                ELSE Decoded(V6([i \in 1..8 |-> read_u16(SubSeq(b, 2 * i, 2 * i + 1))],
                                read_u16(SubSeq(b, 18, 19)), 0, 0), 19)
           [] OTHER -> DecodeErr("Other", "unsupported address type")

\* Socks5StatusError without the arm of code 8, which then falls to the default
Socks5StatusError_NoArm8(code) ==
    CASE code = 1 -> DecodeErr("Other", "general SOCKS server failure")
      [] code = 2 -> DecodeErr("Other", "connection not allowed by ruleset")
      [] code = 3 -> DecodeErr("Other", "network unreachable")
      [] code = 4 -> DecodeErr("Other", "host unreachable")
      [] code = 5 -> DecodeErr("Other", "connection refused")
      [] code = 6 -> DecodeErr("Other", "TTL expired")
      [] code = 7 -> DecodeErr("Other", "command not supported")
      [] OTHER -> DecodeErr("Other", "unknown error")

\* the status byte of a SOCKS5 reply, read_response's match
Socks5StatusError(code) ==
    CASE code = 1 -> DecodeErr("Other", "general SOCKS server failure")
      [] code = 2 -> DecodeErr("Other", "connection not allowed by ruleset")
      [] code = 3 -> DecodeErr("Other", "network unreachable")
      [] code = 4 -> DecodeErr("Other", "host unreachable")
      [] code = 5 -> DecodeErr("Other", "connection refused")
      [] code = 6 -> DecodeErr("Other", "TTL expired")
      [] code = 7 -> DecodeErr("Other", "command not supported")
      [] code = 8 -> DecodeErr("Other", "address kind not supported")
      [] OTHER -> DecodeErr("Other", "unknown error")

\* read_response that checks the reserved byte before the status
read_response_ReservedFirst(b) ==
    IF Len(b) < 1 THEN Short
    ELSE IF b[1] # 5 THEN DecodeErr("InvalidData", "invalid response version")
    ELSE IF Len(b) < 3 THEN Short
    ELSE IF b[3] # 0 THEN DecodeErr("InvalidData", "invalid reserved byte")
    ELSE IF b[2] # 0 THEN Socks5StatusError(b[2])
    ELSE LET r == read_addr(Drop(b, 3))
         IN  IF r.tag = "Ok" THEN [r EXCEPT !.n = r.n + 3] ELSE r

\* read_response that does not look at the reserved byte
read_response_AnyReserved(b) ==
    IF Len(b) < 1 THEN Short
    ELSE IF b[1] # 5 THEN DecodeErr("InvalidData", "invalid response version")
    ELSE IF Len(b) < 2 THEN Short
    ELSE IF b[2] # 0 THEN Socks5StatusError(b[2])
    ELSE IF Len(b) < 3 THEN Short
    ELSE LET r == read_addr(Drop(b, 3))
         IN  IF r.tag = "Ok" THEN [r EXCEPT !.n = r.n + 3] ELSE r

\* read_response on the bytes b read so far: each check is made as soon as
\* its byte is there, and nothing more is read after a failed check.
read_response(b) ==
    IF Len(b) < 1 THEN Short
    ELSE IF b[1] # 5 THEN DecodeErr("InvalidData", "invalid response version")
    ELSE IF Len(b) < 2 THEN Short
    ELSE IF b[2] # 0 THEN Socks5StatusError(b[2])
    ELSE IF Len(b) < 3 THEN Short
    ELSE IF b[3] # 0 THEN DecodeErr("InvalidData", "invalid reserved byte")
    ELSE LET r == read_addr(Drop(b, 3))
         IN  IF r.tag = "Ok" THEN [r EXCEPT !.n = r.n + 3] ELSE r

\* write_addr(&mut packet, target): the packet afterwards, and the error if any
write_addr(packet, t) ==
    CASE t.t = "Ip" /\ t.addr.v = 4 ->
            [tag |-> "Ok", kind |-> "", msg |-> "",
             packet |-> packet \o <<1>> \o write_u32(Ipv4ToU32(t.addr.ip))
                               \o write_u16(t.addr.port)]
      [] t.t = "Ip" /\ t.addr.v = 6 ->
            [tag |-> "Ok", kind |-> "", msg |-> "",
             packet |-> packet \o <<4>>
                               \o write_u16(t.addr.ip[1]) \o write_u16(t.addr.ip[2])
                               \o write_u16(t.addr.ip[3]) \o write_u16(t.addr.ip[4])
                               \o write_u16(t.addr.ip[5]) \o write_u16(t.addr.ip[6])
                               \o write_u16(t.addr.ip[7]) \o write_u16(t.addr.ip[8])
                               \o write_u16(t.addr.port)]
      [] t.t = "Domain" ->
            IF Len(t.host) > U8Max
            THEN [tag |-> "Err", kind |-> "InvalidInput", msg |-> "domain name too long",
                  packet |-> packet \o <<3>>]
            ELSE [tag |-> "Ok", kind |-> "", msg |-> "",
                  packet |-> packet \o <<3>> \o <<Len(t.host)>> \o t.host
                                    \o write_u16(t.port)]

----------------------------------------------------------------------------
(* Strings: a string is its UTF-8 bytes.  The literal parsers below are the *)
(* standard library's FromStr for u16, Ipv4Addr, Ipv6Addr, SocketAddrV4 and *)
(* SocketAddrV6, which lib.rs calls.                                        *)

\* ':', the separator of lib.rs:93
Colon == 58

IsDigit(c) == 48 <= c /\ c <= 57

IsHex(c) == IsDigit(c) \/ (97 <= c /\ c <= 102) \/ (65 <= c /\ c <= 70)

HexVal(c) == IF IsDigit(c) THEN c - 48 ELSE IF c >= 97 THEN c - 87 ELSE c - 55

RECURSIVE SplitFrom(_, _, _)
SplitFrom(s, c, cur) ==
    IF s = <<>> THEN <<cur>>
    ELSE IF Head(s) = c THEN <<cur>> \o SplitFrom(Tail(s), c, <<>>)
    ELSE SplitFrom(Tail(s), c, Append(cur, Head(s)))

\* the pieces of s between the occurrences of c
Split(s, c) == SplitFrom(s, c, <<>>)

\* the first position of c in s, 0 if there is none
FirstIndex(s, c) ==
    LET P == {i \in 1..Len(s) : s[i] = c}
    IN  IF P = {} THEN 0 ELSE CHOOSE i \in P : \A j \in P : i <= j

\* the last position of c in s, 0 if there is none
LastIndex(s, c) ==
    LET P == {i \in 1..Len(s) : s[i] = c}
    IN  IF P = {} THEN 0 ELSE CHOOSE i \in P : \A j \in P : j <= i

RECURSIVE DecValue(_, _)
\* the value of the decimal digits s after the value v, capped at 65536
DecValue(s, v) ==
    IF s = <<>> THEN v
    ELSE DecValue(Tail(s), Min(65536, v * 10 + (Head(s) - 48)))

RECURSIVE HexValue(_, _)
HexValue(s, v) == IF s = <<>> THEN v ELSE HexValue(Tail(s), v * 16 + HexVal(Head(s)))

AllDigits(s) == s # <<>> /\ \A i \in 1..Len(s) : IsDigit(s[i])

\* a number that was parsed, when it fits 16 bits
U16Of(v) == IF v <= 65535 THEN [ok |-> TRUE, val |-> v] ELSE [ok |-> FALSE, val |-> 0]

\* s without the '+' an unsigned number may start with
Unsigned(s) == IF s # <<>> /\ Head(s) = 43 THEN Tail(s) ELSE s

\* str::parse::<u16>: decimal digits, after an optional '+', with a value
\* below 65536
ParseU16(s) ==
    IF AllDigits(Unsigned(s)) THEN U16Of(DecValue(Unsigned(s), 0))
    ELSE [ok |-> FALSE, val |-> 0]

\* one octet of a dotted quad: 1 to 3 digits, at most 255
IsOctet(s) == AllDigits(s) /\ Len(s) <= 3 /\ DecValue(s, 0) <= 255

\* the address of the pieces between the dots
Ipv4OfParts(parts) ==
    IF Len(parts) = 4 /\ \A i \in 1..4 : IsOctet(parts[i])
    THEN [ok |-> TRUE, ip |-> [i \in 1..4 |-> DecValue(parts[i], 0)]]
    ELSE [ok |-> FALSE, ip |-> <<>>]

\* str::parse::<Ipv4Addr>
ParseIpv4(s) == Ipv4OfParts(Split(s, 46))

\* one group of an IPv6 literal: 1 to 4 hex digits
IsGroup(s) == s # <<>> /\ Len(s) <= 4 /\ \A i \in 1..Len(s) : IsHex(s[i])

\* the segments of groups followed by the dotted quad v4 (two segments)
SegmentsWithQuad(groups, v4) ==
    IF v4.ok /\ \A i \in 1..Len(groups) : IsGroup(groups[i])
    THEN [ok |-> TRUE,
          segs |-> [i \in 1..Len(groups) |-> HexValue(groups[i], 0)]
                   \o <<v4.ip[1] * 256 + v4.ip[2], v4.ip[3] * 256 + v4.ip[4]>>]
    ELSE [ok |-> FALSE, segs |-> <<>>]

\* the segments of the pieces between the colons
SegmentsOfParts(parts) ==
    IF \A i \in 1..Len(parts) : IsGroup(parts[i])
    THEN [ok |-> TRUE, segs |-> [i \in 1..Len(parts) |-> HexValue(parts[i], 0)]]
    ELSE SegmentsWithQuad(SubSeq(parts, 1, Len(parts) - 1), ParseIpv4(parts[Len(parts)]))

\* the 16-bit segments of a colon-separated run of groups, the last of which
\* may be a dotted quad; ok is FALSE when a piece is neither
Segments(s) ==
    IF s = <<>> THEN [ok |-> TRUE, segs |-> <<>>] ELSE SegmentsOfParts(Split(s, Colon))

\* the positions where "::" starts in s
DoubleColons(s) == {i \in 1..(Len(s) - 1) : s[i] = Colon /\ s[i + 1] = Colon}

\* an address written in full: 8 segments
Ipv6Full(g) ==
    IF g.ok /\ Len(g.segs) = 8 THEN [ok |-> TRUE, ip |-> g.segs]
    ELSE [ok |-> FALSE, ip |-> <<>>]

\* an address with "::" between the segments hd and tl
Ipv6Compressed(hd, tl) ==
    IF hd.ok /\ tl.ok /\ Len(hd.segs) + Len(tl.segs) <= 7
    THEN [ok |-> TRUE,
          ip |-> hd.segs \o Fill(8 - Len(hd.segs) - Len(tl.segs), 0) \o tl.segs]
    ELSE [ok |-> FALSE, ip |-> <<>>]

\* the address of s, whose "::" are at the positions dc
Ipv6Of(s, dc) ==
    IF dc = {} THEN Ipv6Full(Segments(s))
    ELSE IF Cardinality(dc) > 1 THEN [ok |-> FALSE, ip |-> <<>>]
    ELSE Ipv6Compressed(Segments(Take(s, (CHOOSE i \in dc : TRUE) - 1)),
                        Segments(Drop(s, (CHOOSE i \in dc : TRUE) + 1)))

\* str::parse::<Ipv6Addr>
ParseIpv6(s) == Ipv6Of(s, DoubleColons(s))

\* the port of a socket address literal: 1 to 5 digits with a value below 65536
ParsePort(s) ==
    IF AllDigits(s) /\ Len(s) <= 5 THEN U16Of(DecValue(s, 0)) ELSE [ok |-> FALSE, val |-> 0]

\* the socket address of an address and a port that were parsed
SocketAddrV4Of(ip, port) ==
    IF ip.ok /\ port.ok THEN [ok |-> TRUE, addr |-> V4(ip.ip, port.val)]
    ELSE [ok |-> FALSE, addr |-> NoAddr]

\* "a.b.c.d:port" with its last ':' at position k
SocketAddrV4At(s, k) ==
    IF k > 0 THEN SocketAddrV4Of(ParseIpv4(Take(s, k - 1)), ParsePort(Drop(s, k)))
    ELSE [ok |-> FALSE, addr |-> NoAddr]

\* str::parse::<SocketAddrV4>: "a.b.c.d:port"
ParseSocketAddrV4(s) == SocketAddrV4At(s, LastIndex(s, Colon))

SocketAddrV6Of(ip, port) ==
    IF ip.ok /\ port.ok THEN [ok |-> TRUE, addr |-> V6(ip.ip, port.val, 0, 0)]
    ELSE [ok |-> FALSE, addr |-> NoAddr]

\* "[v6]:port" with its last ']' at position k
SocketAddrV6At(s, k) ==
    IF Len(s) >= 1 /\ s[1] = 91 /\ k > 1 /\ k < Len(s) /\ s[k + 1] = Colon
    THEN SocketAddrV6Of(ParseIpv6(SubSeq(s, 2, k - 1)), ParsePort(Drop(s, k + 1)))
    ELSE [ok |-> FALSE, addr |-> NoAddr]

\* str::parse::<SocketAddrV6>: "[v6]:port"
ParseSocketAddrV6(s) == SocketAddrV6At(s, LastIndex(s, 93))

----------------------------------------------------------------------------
(* ToTargetAddr, lib.rs *)

\* the caller's argument: a TargetAddr or socket address, a (host, port) pair
\* or a string
FromTarget(t) == [form |-> "Target", t |-> t, s |-> <<>>, port |-> 0]

FromPair(host, port) == [form |-> "Pair", t |-> NoTarget, s |-> host, port |-> port]

FromStr(s) == [form |-> "Str", t |-> NoTarget, s |-> s, port |-> 0]

NoInput == [form |-> "None", t |-> NoTarget, s |-> <<>>, port |-> 0]

Normalized(t) == [tag |-> "Ok", kind |-> "", msg |-> "", t |-> t]

NormalizeErr(msg) == [tag |-> "Err", kind |-> "InvalidInput", msg |-> msg, t |-> NoTarget]

\* PairTarget that does not try the host as an IPv6 address
PairTarget_NoV6(host, port, v4, v6) ==
    IF v4.ok THEN Normalized(Ip(V4(v4.ip, port)))
    ELSE Normalized(Domain(host, port))

\* lib.rs:69-78, v4 and v6 being what the two parses of the host gave
PairTarget(host, port, v4, v6) ==
    IF v4.ok THEN Normalized(Ip(V4(v4.ip, port)))
    ELSE IF v6.ok THEN Normalized(Ip(V6(v6.ip, port, 0, 0)))
    ELSE Normalized(Domain(host, port))

\* impl ToTargetAddr for (&str, u16)
pair_to_target_addr(host, port) == PairTarget(host, port, ParseIpv4(host), ParseIpv6(host))

\* lib.rs:108-114, port being what the parse of the port string gave
HostPortTarget(host, port) ==
    IF ~port.ok THEN NormalizeErr("invalid port value")
    ELSE pair_to_target_addr(host, port.val)

\* lib.rs:84-114, v4 and v6 being what the two parses of the string gave and
\* k the position of its last ':'
StrTarget(s, v4, v6, k) ==
    IF v4.ok THEN Normalized(Ip(v4.addr))
    ELSE IF v6.ok THEN Normalized(Ip(v6.addr))
    ELSE IF k = 0 THEN NormalizeErr("invalid socket address")
    ELSE HostPortTarget(Take(s, k - 1), ParseU16(Drop(s, k)))

\* impl ToTargetAddr for &str
str_to_target_addr(s) ==
    StrTarget(s, ParseSocketAddrV4(s), ParseSocketAddrV6(s), LastIndex(s, Colon))

\* to_target_addr of the caller's argument
to_target_addr(in) ==
    CASE in.form = "Target" -> Normalized(in.t)
      [] in.form = "Pair" -> pair_to_target_addr(in.s, in.port)
      [] in.form = "Str" -> str_to_target_addr(in.s)

----------------------------------------------------------------------------
(* The SOCKS4 reply, lib.rs *)

\* the status byte of a SOCKS4 reply, the match of Socks4Stream::connect
Socks4StatusError(code) ==
    CASE code = 91 -> DecodeErr("Other", "request rejected or failed")
      [] code = 92 ->
            DecodeErr("PermissionDenied",
                      "request rejected because SOCKS server cannot connect to idnetd on the client")
      [] code = 93 ->
            DecodeErr("PermissionDenied",
                      "request rejected because the client program and identd report different user-ids")
      [] OTHER -> DecodeErr("InvalidData", "invalid response code")

\* socks4_response reading the address before the port
socks4_response_AddrFirst(response) ==
    IF response[1] # 0 THEN DecodeErr("InvalidData", "invalid response version")
    ELSE IF response[2] # 90 THEN Socks4StatusError(response[2])
    ELSE Decoded(V4(Ipv4FromU32(read_u32(SubSeq(response, 3, 6))),
                    read_u16(SubSeq(response, 7, 8))), 8)

\* the decoding of the 8 reply bytes in Socks4Stream::connect
socks4_response(response) ==
    IF response[1] # 0 THEN DecodeErr("InvalidData", "invalid response version")
    ELSE IF response[2] # 90 THEN Socks4StatusError(response[2])
    ELSE Decoded(V4(Ipv4FromU32(read_u32(SubSeq(response, 5, 8))),
                    read_u16(SubSeq(response, 3, 4))), 8)

\* socks4_request without the NUL that ends the domain name
socks4_request_NoDomainNul(t, uid) ==
    CASE t.t = "Ip" /\ t.addr.v = 6 ->
            [tag |-> "Err", kind |-> "InvalidInput", msg |-> "SOCKS4 does not support IPv6",
             packet |-> <<4, 1>>]
      [] t.t = "Ip" /\ t.addr.v = 4 ->
            [tag |-> "Ok", kind |-> "", msg |-> "",
             packet |-> <<4, 1>> \o write_u16(t.addr.port)
                                 \o write_u32(Ipv4ToU32(t.addr.ip)) \o uid \o <<0>>]
      [] t.t = "Domain" ->
            [tag |-> "Ok", kind |-> "", msg |-> "",
             packet |-> <<4, 1>> \o write_u16(t.port)
                                 \o write_u32(Ipv4ToU32(<<0, 0, 0, 1>>)) \o uid \o <<0>>
                                 \o t.host]

\* socks4_request with the length check of write_addr on the domain name
socks4_request_DomainLimit(t, uid) ==
    CASE t.t = "Ip" /\ t.addr.v = 6 ->
            [tag |-> "Err", kind |-> "InvalidInput", msg |-> "SOCKS4 does not support IPv6",
             packet |-> <<4, 1>>]
      [] t.t = "Ip" /\ t.addr.v = 4 ->
            [tag |-> "Ok", kind |-> "", msg |-> "",
             packet |-> <<4, 1>> \o write_u16(t.addr.port)
                                 \o write_u32(Ipv4ToU32(t.addr.ip)) \o uid \o <<0>>]
      [] t.t = "Domain" ->
            IF Len(t.host) > U8Max
            THEN [tag |-> "Err", kind |-> "InvalidInput", msg |-> "domain name too long",
                  packet |-> <<4, 1>>]
            ELSE [tag |-> "Ok", kind |-> "", msg |-> "",
                  packet |-> <<4, 1>> \o write_u16(t.port)
                                      \o write_u32(Ipv4ToU32(<<0, 0, 0, 1>>)) \o uid \o <<0>>
                                      \o t.host \o <<0>>]

\* the request packet of Socks4Stream::connect, or the IPv6 error
socks4_request(t, uid) ==
    CASE t.t = "Ip" /\ t.addr.v = 6 ->
            [tag |-> "Err", kind |-> "InvalidInput", msg |-> "SOCKS4 does not support IPv6",
             packet |-> <<4, 1>>]
      [] t.t = "Ip" /\ t.addr.v = 4 ->
            [tag |-> "Ok", kind |-> "", msg |-> "",
             packet |-> <<4, 1>> \o write_u16(t.addr.port)
                                 \o write_u32(Ipv4ToU32(t.addr.ip)) \o uid \o <<0>>]
      [] t.t = "Domain" ->
            [tag |-> "Ok", kind |-> "", msg |-> "",
             packet |-> <<4, 1>> \o write_u16(t.port)
                                 \o write_u32(Ipv4ToU32(<<0, 0, 0, 1>>)) \o uid \o <<0>>
                                 \o t.host \o <<0>>]

----------------------------------------------------------------------------
(* Datagram relay framing, v5.rs *)

\* SliceWrite reporting the length of the data, not of what was copied
SliceWrite_DataLen(buf, data) ==
    LET l == Min(Len(buf), Len(data))
    IN  [n |-> Len(data), buf |-> Take(data, l) \o Drop(buf, l)]

\* impl Write for &mut [u8]: write(data) copies as much of data as the buffer
\* has room for, to its start, and returns how much that was
SliceWrite(buf, data) ==
    LET l == Min(Len(buf), Len(data))
    IN  [n |-> l, buf |-> Take(data, l) \o Drop(buf, l)]

\* recv_from that copies from behind the 3 header bytes, address included
recv_from_KeepsAddr(buf, dgram) ==
    LET inner_len == Len(buf) + MAX_ADDR_LEN + 3
        len == Min(Len(dgram), inner_len)
        inner_buf == Take(dgram, len)
        a == read_addr(Drop(inner_buf, 3))
        l == Min(Len(buf), len - 3)
    IN  IF len < 2 THEN [res |-> DecodeErr(UnexpectedEof.kind, UnexpectedEof.msg), buf |-> buf]
        ELSE IF read_u16(SubSeq(inner_buf, 1, 2)) # 0
        THEN [res |-> DecodeErr("InvalidData", "invalid reserved bytes"), buf |-> buf]
        ELSE IF len < 3 THEN [res |-> DecodeErr(UnexpectedEof.kind, UnexpectedEof.msg), buf |-> buf]
        ELSE IF inner_buf[3] # 0
        THEN [res |-> DecodeErr("InvalidData", "invalid fragment id"), buf |-> buf]
        ELSE IF a.tag = "Short"
        THEN [res |-> DecodeErr(UnexpectedEof.kind, UnexpectedEof.msg), buf |-> buf]
        ELSE IF a.tag = "Err" THEN [res |-> a, buf |-> buf]
        ELSE [res |-> Decoded(a.addr, l),
              buf |-> SubSeq(inner_buf, 4, 3 + l) \o Drop(buf, l)]

\* recv_from that does not look at the fragment byte
recv_from_AnyFragment(buf, dgram) ==
    LET inner_len == Len(buf) + MAX_ADDR_LEN + 3
        len == Min(Len(dgram), inner_len)
        inner_buf == Take(dgram, len)
        a == read_addr(Drop(inner_buf, 3))
        w == SliceWrite(buf, Drop(inner_buf, 3 + a.n))
    IN  IF len < 2 THEN [res |-> DecodeErr(UnexpectedEof.kind, UnexpectedEof.msg), buf |-> buf]
        ELSE IF read_u16(SubSeq(inner_buf, 1, 2)) # 0
        THEN [res |-> DecodeErr("InvalidData", "invalid reserved bytes"), buf |-> buf]
        ELSE IF len < 3 THEN [res |-> DecodeErr(UnexpectedEof.kind, UnexpectedEof.msg), buf |-> buf]
        ELSE IF a.tag = "Short"
        THEN [res |-> DecodeErr(UnexpectedEof.kind, UnexpectedEof.msg), buf |-> buf]
        ELSE IF a.tag = "Err" THEN [res |-> a, buf |-> buf]
        ELSE [res |-> Decoded(a.addr, w.n), buf |-> w.buf]

\* Socks5Datagram::recv_from(buf) when the socket hands over the datagram
\* dgram: the result, and the caller's buffer afterwards.  The socket cuts a
\* datagram that is longer than the scratch buffer.
recv_from(buf, dgram) ==
    LET inner_len == Len(buf) + MAX_ADDR_LEN + 3
        len == Min(Len(dgram), inner_len)
        inner_buf == Take(dgram, len)
        a == read_addr(Drop(inner_buf, 3))
        w == SliceWrite(buf, Drop(inner_buf, 3 + a.n))
    IN  IF len < 2 THEN [res |-> DecodeErr(UnexpectedEof.kind, UnexpectedEof.msg), buf |-> buf]
        ELSE IF read_u16(SubSeq(inner_buf, 1, 2)) # 0
        THEN [res |-> DecodeErr("InvalidData", "invalid reserved bytes"), buf |-> buf]
        ELSE IF len < 3 THEN [res |-> DecodeErr(UnexpectedEof.kind, UnexpectedEof.msg), buf |-> buf]
        ELSE IF inner_buf[3] # 0
        THEN [res |-> DecodeErr("InvalidData", "invalid fragment id"), buf |-> buf]
        ELSE IF a.tag = "Short"
        THEN [res |-> DecodeErr(UnexpectedEof.kind, UnexpectedEof.msg), buf |-> buf]
        ELSE IF a.tag = "Err" THEN [res |-> a, buf |-> buf]
        ELSE [res |-> Decoded(a.addr, w.n), buf |-> w.buf]

\* v5.rs:276: the payload behind the header p, or the error of write_addr
Framed(buf, p) == IF p.tag = "Err" THEN p ELSE [p EXCEPT !.packet = p.packet \o buf]

\* SendPacket without the fragment byte
SendPacket_NoFragment(buf, t) ==
    IF t.tag = "Err" THEN [tag |-> "Err", kind |-> t.kind, msg |-> t.msg, packet |-> <<>>]
    ELSE Framed(buf, write_addr(<<0, 0>>, t.t))

\* v5.rs:270-276, t being what to_target_addr gave
SendPacket(buf, t) ==
    IF t.tag = "Err" THEN [tag |-> "Err", kind |-> t.kind, msg |-> t.msg, packet |-> <<>>]
    ELSE Framed(buf, write_addr(<<0, 0, 0>>, t.t))

\* the packet of Socks5Datagram::send_to(buf, addr), v5.rs:270-276
send_to(buf, addr) == SendPacket(buf, to_target_addr(addr))

----------------------------------------------------------------------------
(* The inputs tried *)

\* a domain name of n bytes ("g" is no hexadecimal digit)
DomainName(n) == Fill(n, 103)

DomainLens == (1..MaxShortDomain) \cup (U8Max..(U8Max + DomainOver))

Target4 == V4(<<192, 168, 1, 1>>, 80)

Target6 == V6(<<8193, 3512, 0, 0, 0, 0, 0, 1>>, 443, 0, 0)

\* "g:80", "g" (no separator), "g:x" (no number), "g:65536" (port out of range),
\* "1.2.3.4:80", "[::1]:80"
SampleStrs ==
    { <<103, 58, 56, 48>>, <<103>>, <<103, 58, 120>>, <<103, 58, 54, 53, 53, 51, 54>>,
      <<49, 46, 50, 46, 51, 46, 52, 58, 56, 48>>, <<91, 58, 58, 49, 93, 58, 56, 48>> }

Inputs ==
    {FromTarget(Ip(a)) : a \in {Target4, Target6}}
    \cup {FromTarget(Domain(DomainName(n), 80)) : n \in DomainLens}
    \cup {FromStr(s) : s \in {<<103, 58, 56, 48>>, <<103>>, <<103, 58, 120>>}}

\* the targets tried with Socks5Listener::bind
BindInputs ==
    {FromTarget(Ip(Target4))}
    \cup {FromTarget(Domain(DomainName(n), 80)) : n \in (U8Max + 1)..(U8Max + DomainOver)}

\* the local addresses a caller gives Socks5Datagram::bind, v5.rs:245
LocalAddrs == { V4(<<0, 0, 0, 0>>, 0), V4(<<127, 0, 0, 1>>, 5353) }

\* a target made of the caller's local address
AssociateDst_Local == Ip(V4(<<127, 0, 0, 1>>, 5353))

\* the target Socks5Datagram::bind asks for, v5.rs:251
AssociateDst == Ip(V4(<<0, 0, 0, 0>>, 0))

\* no userid, "u", and a userid of 256 bytes
UserIds == {<<>>, <<117>>, Fill(U8Max + 1, 117)}

\* the addresses a proxy reports in its first reply.  The bytes of the IPv6
\* address read like the start of a reply: 05 00 00 01 01 02 03 04 00 50 ...
ProxyAddrs ==
    { V4(<<1, 0, 0, 1>>, 80), V6(<<1280, 1, 258, 772, 80, 0, 0, 9>>, 8080, 0, 0) }

\* the addresses of the peer a proxy reports in the second reply of a BIND
PeerAddrs ==
    { V4(<<10, 0, 0, 2>>, 1080), V6(<<1280, 1, 258, 772, 80, 0, 0, 9>>, 8080, 0, 0) }

\* a SOCKS5 reply
Reply5(ver, status, rsv, addr) == <<ver, status, rsv>> \o write_addr(<<>>, Ip(addr)).packet

Socks5Statuses == (0..9) \cup {255}

\* the replies a proxy may give to the method negotiation
NegReplies == { <<5, 0>>, <<5, 255>>, <<5, 2>>, <<4, 0>> }

\* the replies of a proxy that grants a request; it sends more only after one
\* of these
GrantedReplies5 == {Reply5(5, 0, 0, a) : a \in ProxyAddrs}

\* the replies a proxy may give to a SOCKS5 request; the last one is cut short
Replies5 ==
    GrantedReplies5
    \cup {Reply5(5, s, 0, V4(<<0, 0, 0, 0>>, 0)) : s \in Socks5Statuses \ {0}}
    \cup { Reply5(4, 0, 0, V4(<<1, 0, 0, 1>>, 80)),
           Reply5(5, 0, 1, V4(<<1, 0, 0, 1>>, 80)),
           <<5, 0, 0, 3, 1, 103, 0, 80>>,
           <<5, 0, 0, 1, 1, 0>> }

\* the second replies a proxy may give to a BIND
Replies5Second ==
    {Reply5(5, 0, 0, a) : a \in PeerAddrs}
    \cup { Reply5(5, 1, 0, V4(<<0, 0, 0, 0>>, 0)) }

Socks4Statuses == {0, 89, 90, 91, 92, 93, 94, 255}

\* the 8-byte replies a proxy may give to a SOCKS4 request
Replies4 ==
    {<<v, s>> \o t : v \in {0, 4}, s \in Socks4Statuses,
                     t \in {<<0, 80, 192, 168, 1, 1>>, <<4, 56, 10, 0, 0, 2>>}}

\* the target's first bytes, sent by the proxy after its last reply
DataOf(n) == [i \in 1..n |-> 200 + i]

\* the payload of n bytes
PayloadOf(n) == [i \in 1..n |-> 1 + (i % 199)]

\* the payload lengths tried: short ones, and one that no scratch buffer holds
PayloadLens == (0..MaxPayload) \cup {MAX_ADDR_LEN + 3 + MaxBufLen}

\* the sources a relayed datagram names in its header
DgramAddrs == { V4(<<8, 8, 8, 8>>, 53), V6(<<8193, 18528, 0, 0, 0, 0, 0, 34952>>, 443, 0, 0) }

\* a datagram from the relay: the 3 header bytes, the address encoding, the
\* payload; addr is the address when the encoding is one of an IP address
DgramOf(hdr, addr, enc, payload) ==
    [hdr |-> hdr, addr |-> addr, enc |-> enc, payload |-> payload]

\* the well-formed datagrams
GoodDgrams ==
    {DgramOf(<<0, 0, 0>>, a, write_addr(<<>>, Ip(a)).packet, PayloadOf(n)) :
        a \in DgramAddrs, n \in PayloadLens}

\* datagrams with a reserved byte or the fragment byte set, with a domain
\* address, and cut short
BadDgrams ==
    {DgramOf(h, V4(<<8, 8, 8, 8>>, 53), <<1, 8, 8, 8, 8, 0, 53>>, PayloadOf(1)) :
        h \in {<<0, 1, 0>>, <<1, 0, 0>>, <<0, 0, 1>>}}
    \cup { DgramOf(<<0, 0, 0>>, NoAddr, <<3, 1, 103, 0, 53>>, PayloadOf(1)),
           DgramOf(<<0, 0, 0>>, NoAddr, <<1, 8, 8>>, <<>>),
           DgramOf(<<0, 0, 0>>, NoAddr, <<>>, <<>>),
           DgramOf(<<0, 0>>, NoAddr, <<>>, <<>>),
           DgramOf(<<>>, NoAddr, <<>>, <<>>) }

DgramBytes(d) == d.hdr \o d.enc \o d.payload

\* the caller's buffer of n bytes before recv_from
FreshBuf(n) == Fill(n, 238)

NoDgramIn ==
    [from |-> NoAddr, dgram |-> DgramOf(<<>>, NoAddr, <<>>, <<>>), buflen |-> 0, set |-> FALSE]

NoDgramOut == [to |-> NoAddr, data |-> <<>>, payload |-> <<>>, target |-> NoInput, set |-> FALSE]

\* the targets and payloads tried with send_to
SendTargets ==
    {FromTarget(Ip(a)) : a \in {Target4, Target6}}
    \cup {FromTarget(Domain(DomainName(n), 80)) : n \in DomainLens}
    \cup {FromStr(<<103>>)}

\* the TargetAddrs tried with the codec
CodecTargets ==
    {Ip(V4(<<a, b, b, c>>, p)) : a \in {1, 192, 255}, b \in {0, 168}, c \in {0, 1, 255},
                                 p \in {0, 80, 65535}}
    \cup {Ip(V6(<<g, 0, 0, 0, 0, 0, h, 1>>, p, 0, sc)) :
            g \in {0, 8193, 65152}, h \in {0, 65535}, p \in {443}, sc \in {0, 2}}
    \cup {Domain(DomainName(n), p) : n \in DomainLens, p \in {80, 65535}}
    \cup {r.t : r \in {x \in {str_to_target_addr(str) : str \in SampleStrs} : x.tag = "Ok"}}

\* the hosts tried: IPv4 literals, IPv6 literals, IPv6 literals in brackets and
\* strings that are none of these, each with what it is
NormHost(s, class, ip) == [s |-> s, class |-> class, ip |-> ip]

\* "1.2.3.4", "255.0.0.1", "0.0.0.0"
V4Hosts ==
    {NormHost(<<49, 46, 50, 46, 51, 46, 52>>, "v4", <<1, 2, 3, 4>>),
      NormHost(<<50, 53, 53, 46, 48, 46, 48, 46, 49>>, "v4", <<255, 0, 0, 1>>),
      NormHost(<<48, 46, 48, 46, 48, 46, 48>>, "v4", <<0, 0, 0, 0>>) }

\* "::1", "::", "1::2", "1:2:3:4:5:6:7:8", "fe80::A"
V6Hosts ==
    {NormHost(<<58, 58, 49>>, "v6", <<0, 0, 0, 0, 0, 0, 0, 1>>),
      NormHost(<<58, 58>>, "v6", <<0, 0, 0, 0, 0, 0, 0, 0>>),
      NormHost(<<49, 58, 58, 50>>, "v6", <<1, 0, 0, 0, 0, 0, 0, 2>>),
      NormHost(<<49, 58, 50, 58, 51, 58, 52, 58, 53, 58, 54, 58, 55, 58, 56>>, "v6", <<1, 2, 3, 4, 5, 6, 7, 8>>),
      NormHost(<<102, 101, 56, 48, 58, 58, 65>>, "v6", <<65152, 0, 0, 0, 0, 0, 0, 10>>) }

\* "[::1]", "[1::2]"
BracketHosts ==
    {NormHost(<<91, 58, 58, 49, 93>>, "bracket", <<0, 0, 0, 0, 0, 0, 0, 1>>),
      NormHost(<<91, 49, 58, 58, 50, 93>>, "bracket", <<1, 0, 0, 0, 0, 0, 0, 2>>) }

\* "g", "g.h", "1.2.3", "256.1.1.1", "1.2.3.4.5", "1:2", "g:h", ":", "", "[g]", "1::2::3", "12345::":
\* neither an IPv4 nor an IPv6 literal
NameHosts ==
    {NormHost(<<103>>, "name", <<>>),
      NormHost(<<103, 46, 104>>, "name", <<>>),
      NormHost(<<49, 46, 50, 46, 51>>, "name", <<>>),
      NormHost(<<50, 53, 54, 46, 49, 46, 49, 46, 49>>, "name", <<>>),
      NormHost(<<49, 46, 50, 46, 51, 46, 52, 46, 53>>, "name", <<>>),
      NormHost(<<49, 58, 50>>, "name", <<>>),
      NormHost(<<103, 58, 104>>, "name", <<>>),
      NormHost(<<58>>, "name", <<>>),
      NormHost(<<>>, "name", <<>>),
      NormHost(<<91, 103, 93>>, "name", <<>>),
      NormHost(<<49, 58, 58, 50, 58, 58, 51>>, "name", <<>>),
      NormHost(<<49, 50, 51, 52, 53, 58, 58>>, "name", <<>>) }

NormHosts == V4Hosts \cup V6Hosts \cup BracketHosts \cup NameHosts

\* a segment after the last ':': ok when it is a number in 0..65535, val its
\* value, plain when it is digits only
PortSeg(s, ok, val, plain) == [s |-> s, ok |-> ok, val |-> val, plain |-> plain]

\* "80", "0", "65535", "080", "+80", "65536", "x", "", "-1", "8x", "+"
PortSegs ==
    {PortSeg(<<56, 48>>, TRUE, 80, TRUE),
      PortSeg(<<48>>, TRUE, 0, TRUE),
      PortSeg(<<54, 53, 53, 51, 53>>, TRUE, 65535, TRUE),
      PortSeg(<<48, 56, 48>>, TRUE, 80, TRUE),
      PortSeg(<<43, 56, 48>>, TRUE, 80, FALSE),
      PortSeg(<<54, 53, 53, 51, 54>>, FALSE, 0, FALSE),
      PortSeg(<<120>>, FALSE, 0, FALSE),
      PortSeg(<<>>, FALSE, 0, FALSE),
      PortSeg(<<45, 49>>, FALSE, 0, FALSE),
      PortSeg(<<56, 120>>, FALSE, 0, FALSE),
      PortSeg(<<43>>, FALSE, 0, FALSE) }

\* host, ':' and the segment
Joined(h, p) == h \o <<Colon>> \o p

\* strings without a ':'
NoColonStrs == {h.s : h \in {x \in NormHosts : \A i \in 1..Len(x.s) : x.s[i] # Colon}}

\* the arguments tried with to_target_addr: "host:segment" strings, strings
\* without a ':', and (host, port) pairs
NormInputs ==
    {FromStr(Joined(h.s, p.s)) : h \in NormHosts, p \in PortSegs}
    \cup {FromStr(x) : x \in NoColonStrs}
    \cup {FromPair(h.s, q) : h \in NormHosts, q \in {80, 65535}}

----------------------------------------------------------------------------
(* The handles *)

NoHandle == [kind |-> "none", proxy_addr |-> NoAddr]

\* Socks5Stream / Socks4Stream { socket, proxy_addr }
Stream(addr) == [kind |-> "stream", proxy_addr |-> addr]

\* Socks5Listener(Socks5Stream)
Listener(addr) == [kind |-> "listener", proxy_addr |-> addr]

\* Socks5Datagram { socket, stream }
Datagram(addr) == [kind |-> "datagram", proxy_addr |-> addr]

\* a Socks5Stream that is a local of the running call
Local(addr) == [kind |-> "local", proxy_addr |-> addr]

\* the command byte of each entry point, v5.rs:104, 213, 252
Command == [connect |-> 1, bind |-> 2, associate |-> 3]

Socks5Ops == {"connect", "bind", "associate"}

\* BufReader::with_capacity(MAX_ADDR_LEN + 3, socket), v5.rs:34
BufCapacity == MAX_ADDR_LEN + 3

NoneSent == [neg |-> <<>>, rep |-> <<>>, rep2 |-> <<>>, data |-> <<>>]

Init ==
    /\ op = "none"
    /\ input = NoInput
    /\ userid = <<>>
    /\ pc = "idle"
    /\ target = NoTarget
    /\ conn = "none"
    /\ opened = 0
    /\ sent = <<>>
    /\ inflight = <<>>
    /\ rcvbuf = <<>>
    /\ peerClosed = FALSE
    /\ pphase = "end"
    /\ psent = NoneSent
    /\ bufr = <<>>
    /\ acc = <<>>
    /\ discarded = <<>>
    /\ result = NoResult
    /\ handle = NoHandle
    /\ accepts = 0
    /\ appRead = <<>>
    /\ udpIn = NoDgramIn
    /\ ubuf = <<>>
    /\ uresult = NoDecoded
    /\ udpOut = NoDgramOut
    /\ usent = NoDecoded
    /\ bindAddr = NoAddr
    /\ cTarget = NoTarget
    /\ cPacket = NoPacket
    /\ cDecoded = NoDecoded

----------------------------------------------------------------------------
(* The caller and the handshakes *)

\* Return that leaves the socket of a failed call open
Return_KeepsSocket(res, h, p, lost) ==
    /\ result' = res
    /\ handle' = h
    /\ pc' = p
    /\ conn' = conn
    /\ discarded' = discarded \o lost
    /\ bufr' = <<>>
    /\ acc' = <<>>

\* a step of a call ends: the call returns res with the handle h (or goes
\* on at p), and a BufReader that is dropped takes the bytes `lost` with it.
\* An Err drops the locals of the call, the socket among them.
Return(res, h, p, lost) ==
    /\ result' = res
    /\ handle' = h
    /\ pc' = p
    /\ conn' = IF res.tag = "Err" /\ conn = "open" THEN "closed" ELSE conn
    /\ discarded' = discarded \o lost
    /\ bufr' = <<>>
    /\ acc' = <<>>

\* the call returns Err(e)
Fail(e) == Return(e, NoHandle, "failed", <<>>)

\* the caller calls Socks4Stream::connect, Socks5Stream::connect,
\* Socks5Listener::bind or Socks5Datagram::bind
Call ==
    /\ pc = "idle"
    /\ \E o \in {"s4connect", "connect", "bind", "associate"} :
         /\ op' = o
         /\ IF o = "associate"
            THEN /\ input' = FromTarget(AssociateDst)
                 /\ userid' = <<>>
                 /\ bindAddr' \in LocalAddrs
            ELSE /\ input' \in (IF o = "bind" THEN BindInputs ELSE Inputs)
                 /\ IF o = "s4connect" THEN userid' \in UserIds ELSE userid' = <<>>
                 /\ UNCHANGED bindAddr
    /\ pc' = "tcp_connect"
    /\ UNCHANGED <<target, conn, opened, sent, inflight, rcvbuf, peerClosed, pphase,
                   psent, bufr, acc, discarded, result, handle, accepts, appRead>>
    /\ UNCHANGED <<udpIn, ubuf, uresult, udpOut, usent, cvars>>

\* TcpStream::connect(proxy), v5.rs:111 and lib.rs:137
TcpConnect ==
    /\ pc = "tcp_connect"
    /\ \/ /\ conn' = "open"
          /\ opened' = opened + 1
          /\ pc' = "normalize"
          /\ pphase' = IF op = "s4connect" THEN "rep" ELSE "neg"
          /\ UNCHANGED <<result, handle, bufr, acc, discarded>>
       \/ /\ Fail(Error("ConnectionRefused", "connection refused"))
          /\ UNCHANGED <<opened, pphase>>
    /\ UNCHANGED <<op, input, userid, target, sent, inflight, rcvbuf, peerClosed,
                   psent, accepts, appRead>>
    /\ UNCHANGED <<dvars, cvars>>

\* target.to_target_addr(), v5.rs:113 and lib.rs:139
Normalize ==
    /\ pc = "normalize"
    /\ LET r == to_target_addr(input)
       IN  IF r.tag = "Err"
           THEN Fail(Error(r.kind, r.msg)) /\ UNCHANGED target
           ELSE /\ target' = r.t
                /\ pc' = IF op = "s4connect" THEN "s4_request" ELSE "greeting"
                /\ UNCHANGED <<result, handle, conn, bufr, acc, discarded>>
    /\ UNCHANGED <<op, input, userid, opened, sent, inflight, rcvbuf, peerClosed,
                   pphase, psent, accepts, appRead>>
    /\ UNCHANGED <<dvars, cvars>>

\* WriteGreeting that writes the negotiation message a second time
WriteGreeting_Twice ==
    /\ pc = "greeting"
    /\ sent' = sent \o << <<5, 1, 0>>, <<5, 1, 0>> >>
    /\ pc' = "neg_version"
    /\ UNCHANGED <<op, input, userid, target, conn, opened, inflight, rcvbuf,
                   peerClosed, pphase, psent, bufr, acc, discarded, result, handle,
                   accepts, appRead>>
    /\ UNCHANGED <<dvars, cvars>>

\* the method negotiation message, v5.rs:115-119
WriteGreeting ==
    /\ pc = "greeting"
    /\ sent' = Append(sent, <<5, 1, 0>>)
    /\ pc' = "neg_version"
    /\ UNCHANGED <<op, input, userid, target, conn, opened, inflight, rcvbuf,
                   peerClosed, pphase, psent, bufr, acc, discarded, result, handle,
                   accepts, appRead>>
    /\ UNCHANGED <<dvars, cvars>>

\* no byte is left to read and none will come
AtEof == rcvbuf = <<>> /\ inflight = <<>> /\ peerClosed

\* socket.read_u8() != 5, v5.rs:121
ReadNegVersion ==
    /\ pc = "neg_version"
    /\ \/ /\ rcvbuf # <<>>
          /\ rcvbuf' = Tail(rcvbuf)
          /\ IF Head(rcvbuf) # 5
             THEN Fail(Error("InvalidData", "invalid response version"))
             ELSE /\ pc' = "neg_method"
                  /\ UNCHANGED <<result, handle, conn, bufr, acc, discarded>>
       \/ /\ AtEof
          /\ Fail(UnexpectedEof)
          /\ UNCHANGED rcvbuf
    /\ UNCHANGED <<op, input, userid, target, opened, sent, inflight, peerClosed,
                   pphase, psent, accepts, appRead>>
    /\ UNCHANGED <<dvars, cvars>>

\* ReadNegMethod that goes on with whatever method the proxy chose, FF apart
ReadNegMethod_AnyMethod ==
    /\ pc = "neg_method"
    /\ \/ /\ rcvbuf # <<>>
          /\ rcvbuf' = Tail(rcvbuf)
          /\ CASE Head(rcvbuf) = 255 -> Fail(Error("Other", "no acceptable auth methods"))
               [] OTHER ->
                    /\ pc' = "request"
                    /\ UNCHANGED <<result, handle, conn, bufr, acc, discarded>>
       \/ /\ AtEof
          /\ Fail(UnexpectedEof)
          /\ UNCHANGED rcvbuf
    /\ UNCHANGED <<op, input, userid, target, opened, sent, inflight, peerClosed,
                   pphase, psent, accepts, appRead>>
    /\ UNCHANGED <<dvars, cvars>>

\* match socket.read_u8(), v5.rs:125-129
ReadNegMethod ==
    /\ pc = "neg_method"
    /\ \/ /\ rcvbuf # <<>>
          /\ rcvbuf' = Tail(rcvbuf)
          /\ CASE Head(rcvbuf) = 0 ->
                    /\ pc' = "request"
                    /\ UNCHANGED <<result, handle, conn, bufr, acc, discarded>>
               [] Head(rcvbuf) = 255 -> Fail(Error("Other", "no acceptable auth methods"))
               [] OTHER -> Fail(Error("InvalidData", "unknown auth method"))
       \/ /\ AtEof
          /\ Fail(UnexpectedEof)
          /\ UNCHANGED rcvbuf
    /\ UNCHANGED <<op, input, userid, target, opened, sent, inflight, peerClosed,
                   pphase, psent, accepts, appRead>>
    /\ UNCHANGED <<dvars, cvars>>

\* WriteRequest with the command byte of CONNECT whatever the entry point
WriteRequest_AlwaysConnect ==
    /\ pc = "request"
    /\ LET p == write_addr(<<5, 1, 0>>, target)
       IN  IF p.tag = "Err"
           THEN Fail(Error(p.kind, p.msg)) /\ UNCHANGED sent
           ELSE /\ sent' = Append(sent, p.packet)
                /\ pc' = "response"
                /\ UNCHANGED <<result, handle, conn, bufr, acc, discarded>>
    /\ UNCHANGED <<op, input, userid, target, opened, inflight, rcvbuf, peerClosed,
                   pphase, psent, accepts, appRead>>
    /\ UNCHANGED <<dvars, cvars>>

\* the request, v5.rs:131-136
WriteRequest ==
    /\ pc = "request"
    /\ LET p == write_addr(<<5, Command[op], 0>>, target)
       IN  IF p.tag = "Err"
           THEN Fail(Error(p.kind, p.msg)) /\ UNCHANGED sent
           ELSE /\ sent' = Append(sent, p.packet)
                /\ pc' = "response"
                /\ UNCHANGED <<result, handle, conn, bufr, acc, discarded>>
    /\ UNCHANGED <<op, input, userid, target, opened, inflight, rcvbuf, peerClosed,
                   pphase, psent, accepts, appRead>>
    /\ UNCHANGED <<dvars, cvars>>

\* what the call does with the address read_response returned: v5.rs:138-143
\* (connect_raw, then v5.rs:213 for bind and v5.rs:252 for associate) and
\* v5.rs:229-230 (accept)
AfterResponse(addr, lost) ==
    CASE pc = "accepting" -> Return(OkResult, Stream(addr), "ready", lost)
      [] pc = "response" /\ op = "connect" -> Return(OkResult, Stream(addr), "ready", lost)
      [] pc = "response" /\ op = "bind" -> Return(OkResult, Listener(addr), "ready", lost)
      [] pc = "response" /\ op = "associate" ->
            Return(NoResult, Local(addr), "udp_bind", lost)

\* ReadResponse that never sees the end of the stream
ReadResponse_NoEof ==
    /\ pc \in {"response", "accepting"}
    /\ bufr # <<>> \/ rcvbuf # <<>>
    /\ LET n == IF bufr = <<>> THEN Min(Len(rcvbuf), BufCapacity) ELSE 0
           buf == IF bufr = <<>> THEN Take(rcvbuf, n) ELSE bufr
           got == Append(acc, Head(buf))
           r == read_response(got)
       IN  /\ rcvbuf' = Drop(rcvbuf, n)
           /\ CASE r.tag = "Short" ->
                     /\ acc' = got
                     /\ bufr' = Tail(buf)
                     /\ UNCHANGED <<pc, result, handle, conn, discarded>>
                [] r.tag = "Err" ->
                     Return(ErrorOf(r), NoHandle, "failed", Tail(buf))
                [] r.tag = "Ok" -> AfterResponse(r.addr, Tail(buf))
    /\ UNCHANGED <<op, input, userid, target, opened, sent, inflight, peerClosed,
                   pphase, psent, accepts, appRead>>
    /\ UNCHANGED <<dvars, cvars>>

\* read_response(&mut socket), v5.rs:33-61, one byte at a time through its
\* BufReader: an empty BufReader first takes what the socket holds, up to its
\* capacity; when read_response returns, the BufReader is dropped with
\* whatever it still holds.
ReadResponse ==
    /\ pc \in {"response", "accepting"}
    /\ \/ /\ bufr # <<>> \/ rcvbuf # <<>>
          /\ LET n == IF bufr = <<>> THEN Min(Len(rcvbuf), BufCapacity) ELSE 0
                 buf == IF bufr = <<>> THEN Take(rcvbuf, n) ELSE bufr
                 got == Append(acc, Head(buf))
                 r == read_response(got)
             IN  /\ rcvbuf' = Drop(rcvbuf, n)
                 /\ CASE r.tag = "Short" ->
                           /\ acc' = got
                           /\ bufr' = Tail(buf)
                           /\ UNCHANGED <<pc, result, handle, conn, discarded>>
                      [] r.tag = "Err" ->
                           Return(ErrorOf(r), NoHandle, "failed", Tail(buf))
                      [] r.tag = "Ok" -> AfterResponse(r.addr, Tail(buf))
       \/ /\ bufr = <<>> /\ AtEof
          /\ Fail(UnexpectedEof)
          /\ UNCHANGED rcvbuf
    /\ UNCHANGED <<op, input, userid, target, opened, sent, inflight, peerClosed,
                   pphase, psent, accepts, appRead>>
    /\ UNCHANGED <<dvars, cvars>>

\* accept that sends the BIND request once more before it reads
Accept_Resend ==
    /\ pc = "ready"
    /\ handle.kind = "listener"
    /\ pc' = "accepting"
    /\ handle' = Local(handle.proxy_addr)
    /\ accepts' = accepts + 1
    /\ result' = NoResult
    /\ sent' = Append(sent, write_addr(<<5, 2, 0>>, target).packet)
    /\ UNCHANGED <<op, input, userid, target, conn, opened, inflight, rcvbuf,
                   peerClosed, pphase, psent, bufr, acc, discarded, appRead>>
    /\ UNCHANGED <<dvars, cvars>>

\* Socks5Listener::accept(mut self), v5.rs:228: the listener is moved into
\* the call
Accept ==
    /\ pc = "ready"
    /\ handle.kind = "listener"
    /\ pc' = "accepting"
    /\ handle' = Local(handle.proxy_addr)
    /\ accepts' = accepts + 1
    /\ result' = NoResult
    /\ UNCHANGED <<op, input, userid, target, conn, opened, sent, inflight, rcvbuf,
                   peerClosed, pphase, psent, bufr, acc, discarded, appRead>>
    /\ UNCHANGED <<dvars, cvars>>

\* UdpBind that does not keep the stream of the handshake
UdpBind_DropsStream ==
    /\ pc = "udp_bind"
    /\ \/ /\ result' = OkResult
          /\ handle' = Datagram(handle.proxy_addr)
          /\ pc' = "ready"
          /\ conn' = "closed"
          /\ UNCHANGED <<discarded, bufr, acc>>
       \/ Fail(Error("AddrInUse", "address in use"))
    /\ UNCHANGED <<op, input, userid, target, opened, sent, inflight, rcvbuf,
                   peerClosed, pphase, psent, accepts, appRead>>
    /\ UNCHANGED <<dvars, cvars>>

\* UdpSocket::bind(addr), v5.rs:254-259: the socket is bound to bindAddr
UdpBind ==
    /\ pc = "udp_bind"
    /\ \/ Return(OkResult, Datagram(handle.proxy_addr), "ready", <<>>)
       \/ Fail(Error("AddrInUse", "address in use"))
    /\ UNCHANGED <<op, input, userid, target, opened, sent, inflight, rcvbuf,
                   peerClosed, pphase, psent, accepts, appRead>>
    /\ UNCHANGED <<dvars, cvars>>

\* the request of Socks4Stream::connect, lib.rs:141-168
S4WriteRequest ==
    /\ pc = "s4_request"
    /\ LET p == socks4_request(target, userid)
       IN  IF p.tag = "Err"
           THEN Fail(Error(p.kind, p.msg)) /\ UNCHANGED sent
           ELSE /\ sent' = Append(sent, p.packet)
                /\ pc' = "s4_response"
                /\ UNCHANGED <<result, handle, conn, bufr, acc, discarded>>
    /\ UNCHANGED <<op, input, userid, target, opened, inflight, rcvbuf, peerClosed,
                   pphase, psent, accepts, appRead>>
    /\ UNCHANGED <<dvars, cvars>>

\* S4ReadResponse reading through a buffer that takes all the socket holds
\* and is dropped with what is left behind the reply
S4ReadResponse_Buffered ==
    /\ pc = "s4_response"
    /\ \/ /\ rcvbuf # <<>>
          /\ LET n == Min(8 - Len(acc), Len(rcvbuf))
                 got == acc \o Take(rcvbuf, n)
                 r == socks4_response(got)
             IN  /\ rcvbuf' = <<>>
                 /\ IF Len(got) < 8
                    THEN /\ acc' = got
                         /\ UNCHANGED <<pc, result, handle, conn, bufr, discarded>>
                    ELSE IF r.tag = "Err"
                    THEN Return(ErrorOf(r), NoHandle, "failed", Drop(rcvbuf, n))
                    ELSE Return(OkResult, Stream(r.addr), "ready", Drop(rcvbuf, n))
       \/ /\ AtEof
          /\ Fail(UnexpectedEof)
          /\ UNCHANGED rcvbuf
    /\ UNCHANGED <<op, input, userid, target, opened, sent, inflight, peerClosed,
                   pphase, psent, accepts, appRead>>
    /\ UNCHANGED <<dvars, cvars>>

\* socket.read_exact(&mut response) and the decoding, lib.rs:170-200
S4ReadResponse ==
    /\ pc = "s4_response"
    /\ \/ /\ rcvbuf # <<>>
          /\ LET n == Min(8 - Len(acc), Len(rcvbuf))
                 got == acc \o Take(rcvbuf, n)
                 r == socks4_response(got)
             IN  /\ rcvbuf' = Drop(rcvbuf, n)
                 /\ IF Len(got) < 8
                    THEN /\ acc' = got
                         /\ UNCHANGED <<pc, result, handle, conn, bufr, discarded>>
                    ELSE IF r.tag = "Err"
                    THEN Fail(ErrorOf(r))
                    ELSE Return(OkResult, Stream(r.addr), "ready", <<>>)
       \/ /\ AtEof
          /\ Fail(UnexpectedEof)
          /\ UNCHANGED rcvbuf
    /\ UNCHANGED <<op, input, userid, target, opened, sent, inflight, peerClosed,
                   pphase, psent, accepts, appRead>>
    /\ UNCHANGED <<dvars, cvars>>

\* impl Read for Socks5Stream / Socks4Stream: self.socket.read(buf),
\* v5.rs:168-172 and lib.rs:225-229
SessionRead ==
    /\ pc = "ready"
    /\ handle.kind = "stream"
    /\ rcvbuf # <<>>
    /\ appRead' = appRead \o rcvbuf
    /\ rcvbuf' = <<>>
    /\ UNCHANGED <<op, input, userid, pc, target, conn, opened, sent, inflight,
                   peerClosed, pphase, psent, bufr, acc, discarded, result, handle,
                   accepts>>
    /\ UNCHANGED <<dvars, cvars>>

\* the caller drops the handle, and its socket with it
DropHandle ==
    /\ pc = "ready"
    /\ pc' = "dropped"
    /\ handle' = NoHandle
    /\ conn' = "closed"
    /\ UNCHANGED <<op, input, userid, target, opened, sent, inflight, rcvbuf,
                   peerClosed, pphase, psent, bufr, acc, discarded, result, accepts,
                   appRead>>
    /\ UNCHANGED <<dvars, cvars>>

----------------------------------------------------------------------------
(* The datagram relay *)

\* Socks5Datagram::recv_from, v5.rs:282-296: the relay's next datagram is d,
\* the caller's buffer has n bytes
RecvFrom ==
    /\ pc = "ready"
    /\ handle.kind = "datagram"
    /\ \E d \in GoodDgrams \cup BadDgrams, n \in 0..MaxBufLen :
         LET r == recv_from(FreshBuf(n), DgramBytes(d))
         IN  /\ udpIn' = [from |-> handle.proxy_addr, dgram |-> d, buflen |-> n, set |-> TRUE]
             /\ ubuf' = r.buf
             /\ uresult' = r.res
    /\ UNCHANGED <<hvars, cvars, udpOut, usent, bindAddr>>

\* SendTo returning the length of the caller's payload
SendTo_PayloadCount ==
    /\ pc = "ready"
    /\ handle.kind = "datagram"
    /\ \E a \in SendTargets, n \in 0..1 :
         LET p == send_to(PayloadOf(n), a)
         IN  IF p.tag = "Err"
             THEN /\ usent' = DecodeErr(p.kind, p.msg)
                  /\ udpOut' = [NoDgramOut EXCEPT !.payload = PayloadOf(n), !.target = a]
             ELSE /\ usent' = Decoded(NoAddr, n)
                  /\ udpOut' = [to |-> handle.proxy_addr, data |-> p.packet,
                                payload |-> PayloadOf(n), target |-> a, set |-> TRUE]
    /\ UNCHANGED <<hvars, cvars, udpIn, ubuf, uresult, bindAddr>>

\* Socks5Datagram::send_to, v5.rs:269-279: self.socket.send_to(&packet,
\* self.stream.proxy_addr) sends the whole packet and returns its length
SendTo ==
    /\ pc = "ready"
    /\ handle.kind = "datagram"
    /\ \E a \in SendTargets, n \in 0..1 :
         LET p == send_to(PayloadOf(n), a)
         IN  IF p.tag = "Err"
             THEN /\ usent' = DecodeErr(p.kind, p.msg)
                  /\ udpOut' = [NoDgramOut EXCEPT !.payload = PayloadOf(n), !.target = a]
             ELSE /\ usent' = Decoded(NoAddr, Len(p.packet))
                  /\ udpOut' = [to |-> handle.proxy_addr, data |-> p.packet,
                                payload |-> PayloadOf(n), target |-> a, set |-> TRUE]
    /\ UNCHANGED <<hvars, cvars, udpIn, ubuf, uresult, bindAddr>>

----------------------------------------------------------------------------
(* The proxy and the network *)

ProxySends(m, part, next) ==
    /\ inflight' = inflight \o m
    /\ psent' = [psent EXCEPT ![part] = m]
    /\ pphase' = next
    /\ UNCHANGED <<op, input, userid, pc, target, conn, opened, sent, rcvbuf,
                   peerClosed, bufr, acc, discarded, result, handle, accepts, appRead>>
    /\ UNCHANGED <<dvars, cvars>>

\* the proxy answers the method negotiation once it has been written
ProxyNegotiate ==
    /\ conn = "open" /\ ~peerClosed /\ pphase = "neg"
    /\ Len(sent) >= 1
    /\ \E m \in NegReplies : ProxySends(m, "neg", IF m = <<5, 0>> THEN "rep" ELSE "end")

\* the proxy answers the request once it has been written
ProxyReply ==
    /\ conn = "open" /\ ~peerClosed /\ pphase = "rep"
    /\ IF op = "s4connect"
       THEN /\ Len(sent) >= 1
            /\ \E m \in Replies4 :
                 ProxySends(m, "rep", IF m[2] = 90 THEN "data" ELSE "end")
       ELSE /\ Len(sent) >= 2
            /\ \E m \in Replies5 :
                 ProxySends(m, "rep",
                            IF m \notin GrantedReplies5 THEN "end"
                            ELSE IF op = "bind" THEN "rep2"
                            ELSE IF op = "connect" THEN "data" ELSE "end")

\* BIND: the proxy reports the connection of the peer
ProxyReply2 ==
    /\ conn = "open" /\ ~peerClosed /\ pphase = "rep2"
    /\ \E m \in Replies5Second :
         ProxySends(m, "rep2", IF m[2] # 0 THEN "end" ELSE "data")

\* the proxy relays the first bytes of the target
ProxyData ==
    /\ conn = "open" /\ ~peerClosed /\ pphase = "data"
    /\ \E n \in 1..MaxData : ProxySends(DataOf(n), "data", "end")

\* the proxy closes its side; the client sees it once it has read all that
\* was sent before
ProxyClose ==
    /\ conn = "open" /\ ~peerClosed
    /\ inflight = <<>> /\ rcvbuf = <<>>
    /\ peerClosed' = TRUE
    /\ UNCHANGED <<op, input, userid, pc, target, conn, opened, sent, inflight,
                   rcvbuf, pphase, psent, bufr, acc, discarded, result, handle,
                   accepts, appRead>>
    /\ UNCHANGED <<dvars, cvars>>

\* the next k bytes of the proxy reach the client's socket
Deliver ==
    /\ conn = "open"
    /\ inflight # <<>>
    /\ \E k \in 1..Len(inflight) :
         /\ rcvbuf' = rcvbuf \o Take(inflight, k)
         /\ inflight' = Drop(inflight, k)
    /\ UNCHANGED <<op, input, userid, pc, target, conn, opened, sent, peerClosed,
                   pphase, psent, bufr, acc, discarded, result, handle, accepts,
                   appRead>>
    /\ UNCHANGED <<dvars, cvars>>

Next ==
    \/ Call
    \/ TcpConnect
    \/ Normalize
    \/ WriteGreeting
    \/ ReadNegVersion
    \/ ReadNegMethod
    \/ WriteRequest
    \/ ReadResponse
    \/ Accept
    \/ UdpBind
    \/ S4WriteRequest
    \/ S4ReadResponse
    \/ SessionRead
    \/ DropHandle
    \/ RecvFrom
    \/ SendTo
    \/ ProxyNegotiate
    \/ ProxyReply
    \/ ProxyReply2
    \/ ProxyData
    \/ ProxyClose
    \/ Deliver

Spec == Init /\ [][Next]_vars

----------------------------------------------------------------------------
(* The address codec on its own: a TargetAddr is encoded by write_addr and  *)
(* the bytes are decoded by read_addr.                                      *)

InitCodec ==
    /\ op = "none"
    /\ input = NoInput
    /\ userid = <<>>
    /\ pc = "idle"
    /\ target = NoTarget
    /\ conn = "none"
    /\ opened = 0
    /\ sent = <<>>
    /\ inflight = <<>>
    /\ rcvbuf = <<>>
    /\ peerClosed = FALSE
    /\ pphase = "end"
    /\ psent = NoneSent
    /\ bufr = <<>>
    /\ acc = <<>>
    /\ discarded = <<>>
    /\ result = NoResult
    /\ handle = NoHandle
    /\ accepts = 0
    /\ appRead = <<>>
    /\ udpIn = NoDgramIn
    /\ ubuf = <<>>
    /\ uresult = NoDecoded
    /\ udpOut = NoDgramOut
    /\ usent = NoDecoded
    /\ bindAddr = NoAddr
    /\ cTarget \in CodecTargets
    /\ cPacket = NoPacket
    /\ cDecoded = NoDecoded

\* write_addr(&mut packet, &target) on an empty packet
Encode ==
    /\ cPacket.tag = "None"
    /\ cPacket' = write_addr(<<>>, cTarget)
    /\ UNCHANGED <<hvars, dvars, cTarget, cDecoded>>

\* read_addr(&mut &packet[..]) on the bytes of a packet that was built; a
\* slice that ends early fails read_exact
Decode ==
    /\ cPacket.tag = "Ok"
    /\ cDecoded.tag = "None"
    /\ LET r == read_addr(cPacket.packet)
       IN  cDecoded' = IF r.tag = "Short"
                       THEN DecodeErr(UnexpectedEof.kind, UnexpectedEof.msg)
                       ELSE r
    /\ UNCHANGED <<hvars, dvars, cTarget, cPacket>>

NextCodec == Encode \/ Decode

SpecCodec == InitCodec /\ [][NextCodec]_vars

----------------------------------------------------------------------------
(* to_target_addr on its own: the argument is normalized once.              *)

InitNorm ==
    /\ op = "none"
    /\ input \in NormInputs
    /\ userid = <<>>
    /\ pc = "idle"
    /\ target = NoTarget
    /\ conn = "none"
    /\ opened = 0
    /\ sent = <<>>
    /\ inflight = <<>>
    /\ rcvbuf = <<>>
    /\ peerClosed = FALSE
    /\ pphase = "end"
    /\ psent = NoneSent
    /\ bufr = <<>>
    /\ acc = <<>>
    /\ discarded = <<>>
    /\ result = NoResult
    /\ handle = NoHandle
    /\ accepts = 0
    /\ appRead = <<>>
    /\ udpIn = NoDgramIn
    /\ ubuf = <<>>
    /\ uresult = NoDecoded
    /\ udpOut = NoDgramOut
    /\ usent = NoDecoded
    /\ bindAddr = NoAddr
    /\ cTarget = NoTarget
    /\ cPacket = NoPacket
    /\ cDecoded = NoDecoded

\* input.to_target_addr(), lib.rs:66-115
ToTargetAddr ==
    /\ pc = "idle"
    /\ LET r == to_target_addr(input)
       IN  /\ target' = r.t
           /\ result' = IF r.tag = "Err" THEN Error(r.kind, r.msg) ELSE OkResult
    /\ pc' = "normalized"
    /\ UNCHANGED <<op, input, userid, conn, opened, sent, inflight, rcvbuf, peerClosed,
                   pphase, psent, bufr, acc, discarded, handle, accepts, appRead>>
    /\ UNCHANGED <<dvars, cvars>>

NextNorm == ToTargetAddr

SpecNorm == InitNorm /\ [][NextNorm]_vars

----------------------------------------------------------------------------
(* The handshakes alone, with progress: the thread of the call runs on, the  *)
(* network delivers what was sent, and the proxy goes on to send or to close, *)
(* so that every read of the call gets data or the end of the stream.        *)

\* the steps of a running call, v5.rs:107-144, 228-231, 245-260 and
\* lib.rs:133-201
HandshakeStep ==
    \/ TcpConnect
    \/ Normalize
    \/ WriteGreeting
    \/ ReadNegVersion
    \/ ReadNegMethod
    \/ WriteRequest
    \/ ReadResponse
    \/ UdpBind
    \/ S4WriteRequest
    \/ S4ReadResponse

\* the steps of the proxy up to its last reply; what it relays afterwards
\* reaches no handshake
ProxyStep ==
    \/ ProxyNegotiate
    \/ ProxyReply
    \/ ProxyReply2
    \/ ProxyClose

NextLive ==
    \/ Call
    \/ Accept
    \/ TcpConnect
    \/ Normalize
    \/ WriteGreeting
    \/ ReadNegVersion
    \/ ReadNegMethod
    \/ WriteRequest
    \/ ReadResponse
    \/ UdpBind
    \/ S4WriteRequest
    \/ S4ReadResponse
    \/ ProxyNegotiate
    \/ ProxyReply
    \/ ProxyReply2
    \/ ProxyClose
    \/ Deliver

SpecLive ==
    /\ Init
    /\ [][NextLive]_vars
    /\ WF_vars(HandshakeStep)
    /\ WF_vars(ProxyStep)
    /\ WF_vars(Deliver)

----------------------------------------------------------------------------
(* The SOCKS4 request on its own: Socks4Stream::connect, connected to the    *)
(* proxy, normalizes its target and writes its request.                      *)

\* the targets tried: addresses in and out of 0.0.0.x, an IPv6 address, names
\* ("g", "g" NUL "h", the empty name, 256 bytes) and the string "g:80"
Req4Inputs ==
    {FromTarget(Ip(V4(ip, p))) :
        ip \in {<<192, 168, 1, 1>>, <<0, 0, 0, 0>>, <<0, 0, 0, 1>>, <<0, 0, 0, 255>>,
                <<0, 0, 1, 0>>},
        p \in {0, 80, 65535}}
    \cup {FromTarget(Ip(Target6))}
    \cup {FromTarget(Domain(h, 80)) :
            h \in {<<103>>, <<103, 0, 104>>, <<>>, DomainName(U8Max + 1)}}
    \cup {FromStr(<<103, 58, 56, 48>>)}

\* the userids tried: none, "u", "u" NUL, NUL, "u" NUL "v", 256 bytes
Req4UserIds ==
    {<<>>, <<117>>, <<117, 0>>, <<0>>, <<117, 0, 118>>, Fill(U8Max + 1, 117)}

\* Socks4Stream::connect(proxy, input, userid) after TcpStream::connect,
\* lib.rs:137, has succeeded
InitReq4 ==
    /\ op = "s4connect"
    /\ input \in Req4Inputs
    /\ userid \in Req4UserIds
    /\ pc = "normalize"
    /\ target = NoTarget
    /\ conn = "open"
    /\ opened = 1
    /\ sent = <<>>
    /\ inflight = <<>>
    /\ rcvbuf = <<>>
    /\ peerClosed = FALSE
    /\ pphase = "rep"
    /\ psent = NoneSent
    /\ bufr = <<>>
    /\ acc = <<>>
    /\ discarded = <<>>
    /\ result = NoResult
    /\ handle = NoHandle
    /\ accepts = 0
    /\ appRead = <<>>
    /\ udpIn = NoDgramIn
    /\ ubuf = <<>>
    /\ uresult = NoDecoded
    /\ udpOut = NoDgramOut
    /\ usent = NoDecoded
    /\ bindAddr = NoAddr
    /\ cTarget = NoTarget
    /\ cPacket = NoPacket
    /\ cDecoded = NoDecoded

NextReq4 == Normalize \/ S4WriteRequest

SpecReq4 == InitReq4 /\ [][NextReq4]_vars

----------------------------------------------------------------------------
(* The reply on its own: a CONNECT has written its request, the proxy has     *)
(* sent its answer, whole or cut short, and read_response reads it.          *)

\* what follows the first 4 bytes of a reply with address type a
ReplyTail(a) ==
    CASE a = 1 -> <<1, 0, 0, 1, 0, 80>>
      [] a = 4 -> <<32, 1, 13, 184, 0, 0, 0, 0, 0, 0, 0, 0, 0, 0, 0, 1, 1, 187>>
      [] OTHER -> <<1, 103, 0, 80>>

\* replies with each of version, status, reserved byte and address type right
\* or wrong, whole and cut after 1, 2 and 3 bytes
ReplyCases ==
    {<<v, st, r, a>> \o ReplyTail(a) :
        v \in {5, 4}, st \in {0, 1, 8, 9}, r \in {0, 1}, a \in {1, 3, 4}}
    \cup {Take(<<v, st, r, 3>>, n) : v \in {5, 4}, st \in {0, 1}, r \in {0, 1}, n \in 1..3}

\* Socks5Stream::connect_raw at v5.rs:138, the negotiation done and the
\* request written, with the proxy's answer on its way
InitReply ==
    /\ op = "connect"
    /\ input = FromTarget(Ip(Target4))
    /\ userid = <<>>
    /\ pc = "response"
    /\ target = Ip(Target4)
    /\ conn = "open"
    /\ opened = 1
    /\ sent = << <<5, 1, 0>>, write_addr(<<5, 1, 0>>, Ip(Target4)).packet >>
    /\ \E r \in ReplyCases :
         /\ inflight = r
         /\ psent = [NoneSent EXCEPT !.neg = <<5, 0>>, !.rep = r]
    /\ rcvbuf = <<>>
    /\ peerClosed = FALSE
    /\ pphase = "end"
    /\ bufr = <<>>
    /\ acc = <<>>
    /\ discarded = <<>>
    /\ result = NoResult
    /\ handle = NoHandle
    /\ accepts = 0
    /\ appRead = <<>>
    /\ udpIn = NoDgramIn
    /\ ubuf = <<>>
    /\ uresult = NoDecoded
    /\ udpOut = NoDgramOut
    /\ usent = NoDecoded
    /\ bindAddr = NoAddr
    /\ cTarget = NoTarget
    /\ cPacket = NoPacket
    /\ cDecoded = NoDecoded

NextReply == ReadResponse \/ Deliver \/ ProxyClose

SpecReply == InitReply /\ [][NextReply]_vars

----------------------------------------------------------------------------
(* The two Socks5Stream::connect, v5.rs:100-144 and lib.rs:266-368, each as *)
(* one step from its arguments and the proxy's bytes to what it returns.    *)
(* The proxy sends the bytes a1 when it gets the negotiation message and the *)
(* bytes a2 when it gets the request, and then closes; the network delivers *)
(* them in any segments, so that a BufReader that must fill takes any number *)
(* of the bytes sent so far, from 1 up to its capacity.                     *)

\* what a call returned: the messages written, the result, the handle, the
\* proxy's bytes still unread on the connection and those taken and dropped
Outcome(s, res, h, unread, lost) ==
    [sent |-> s, result |-> res, handle |-> h, unread |-> unread, lost |-> lost]

\* return Err(e): the connection is dropped with the call's locals
Failed(s, e) == Outcome(s, e, NoHandle, <<>>, <<>>)

Least(I) == CHOOSE i \in I : \A j \in I : i <= j

\* BufReader::read of the byte at p + 1, Q being the positions of the stream
\* the buffer may reach to: what is buffered stays, an empty buffer is filled
\* with 1 to BufCapacity of the bytes that were sent, avail in all
FillStep(Q, p, avail) ==
    {q \in Q : q > p}
    \cup (IF p \in Q /\ p < avail THEN (p + 1)..Min(avail, p + BufCapacity) ELSE {})

RECURSIVE Fills(_, _, _, _)
\* the BufReader once the bytes p + 1 .. pEnd have been read one by one
Fills(Q, p, pEnd, avail) ==
    IF p >= pEnd THEN Q ELSE Fills(FillStep(Q, p, avail), p + 1, pEnd, avail)

\* the reply r was read up to position p of the stream S, with the BufReader
\* reaching to one of Q: v5.rs:60 and 140-143, lib.rs:361-367
Replied(s, r, S, p, Q) ==
    IF r.tag = "Err" THEN {Failed(s, ErrorOf(r))}
    ELSE {Outcome(s, OkResult, Stream(r.addr), Drop(S, q), SubSeq(S, p + 1, q)) : q \in Q}

\* the answer to the method negotiation, v5.rs:121-129
negotiation(b) ==
    IF Len(b) < 1 THEN DecodeErr(UnexpectedEof.kind, UnexpectedEof.msg)
    ELSE IF b[1] # 5 THEN DecodeErr("InvalidData", "invalid response version")
    ELSE IF Len(b) < 2 THEN DecodeErr(UnexpectedEof.kind, UnexpectedEof.msg)
    ELSE CASE b[2] = 0 -> Decoded(NoAddr, 2)
           [] b[2] = 255 -> DecodeErr("Other", "no acceptable auth methods")
           [] OTHER -> DecodeErr("InvalidData", "unknown auth method")

\* read_response(&mut socket), v5.rs:138: a new BufReader at position 2; I
\* are the lengths at which the reply is decided
V5Reply(s, S, I) ==
    IF I = {} THEN {Failed(s, UnexpectedEof)}
    ELSE Replied(s, read_response(SubSeq(S, 3, 2 + Least(I))), S, 2 + Least(I),
                 Fills({2}, 2, 2 + Least(I), Len(S)))

\* v5.rs:131-138, p being what write_addr made of the request
V5Request(p, S) ==
    IF p.tag = "Err" THEN {Failed(<< <<5, 1, 0>> >>, Error(p.kind, p.msg))}
    ELSE V5Reply(<< <<5, 1, 0>>, p.packet >>, S,
                 {i \in 0..(Len(S) - 2) : read_response(SubSeq(S, 3, 2 + i)).tag # "Short"})

\* v5.rs:115-136, neg being the outcome of the negotiation
V5Negotiation(t, neg, S) ==
    IF neg.tag = "Err" THEN {Failed(<< <<5, 1, 0>> >>, ErrorOf(neg))}
    ELSE V5Request(write_addr(<<5, 1, 0>>, t), S)

\* Socks5Stream::connect of v5.rs once connected, t being what to_target_addr
\* gave: the outcomes it may have
V5Connect(t, a1, a2) ==
    IF t.tag = "Err" THEN {Failed(<<>>, Error(t.kind, t.msg))}
    ELSE V5Negotiation(t.t, negotiation(a1), a1 \o a2)

\* the answer to the method negotiation, lib.rs:280-288
lib_negotiation(b) ==
    IF Len(b) < 1 THEN DecodeErr(UnexpectedEof.kind, UnexpectedEof.msg)
    ELSE IF b[1] # 5 THEN DecodeErr("InvalidData", "invalid response version")
    ELSE IF Len(b) < 2 THEN DecodeErr(UnexpectedEof.kind, UnexpectedEof.msg)
    ELSE CASE b[2] = 0 -> Decoded(NoAddr, 2)
           [] b[2] = 255 -> DecodeErr("Other", "no acceptable auth methods")
           [] OTHER -> DecodeErr("InvalidData", "unknown auth method")

\* lib_request that writes a name of any length, its length modulo 256
lib_request_NoLengthCheck(t) ==
    CASE t.t = "Ip" /\ t.addr.v = 4 ->
            [tag |-> "Ok", kind |-> "", msg |-> "",
             packet |-> <<5, 1, 0, 1>> \o write_u32(Ipv4ToU32(t.addr.ip))
                                       \o write_u16(t.addr.port)]
      [] t.t = "Ip" /\ t.addr.v = 6 ->
            [tag |-> "Ok", kind |-> "", msg |-> "",
             packet |-> <<5, 1, 0, 4>>
                        \o write_u16(t.addr.ip[1]) \o write_u16(t.addr.ip[2])
                        \o write_u16(t.addr.ip[3]) \o write_u16(t.addr.ip[4])
                        \o write_u16(t.addr.ip[5]) \o write_u16(t.addr.ip[6])
                        \o write_u16(t.addr.ip[7]) \o write_u16(t.addr.ip[8])
                        \o write_u16(t.addr.port)]
      [] t.t = "Domain" ->
            [tag |-> "Ok", kind |-> "", msg |-> "",
             packet |-> <<5, 1, 0, 3>> \o <<Len(t.host) % 256>> \o t.host
                                       \o write_u16(t.port)]

\* the request packet, lib.rs:290-316
lib_request(t) ==
    CASE t.t = "Ip" /\ t.addr.v = 4 ->
            [tag |-> "Ok", kind |-> "", msg |-> "",
             packet |-> <<5, 1, 0, 1>> \o write_u32(Ipv4ToU32(t.addr.ip))
                                       \o write_u16(t.addr.port)]
      [] t.t = "Ip" /\ t.addr.v = 6 ->
            [tag |-> "Ok", kind |-> "", msg |-> "",
             packet |-> <<5, 1, 0, 4>>
                        \o write_u16(t.addr.ip[1]) \o write_u16(t.addr.ip[2])
                        \o write_u16(t.addr.ip[3]) \o write_u16(t.addr.ip[4])
                        \o write_u16(t.addr.ip[5]) \o write_u16(t.addr.ip[6])
                        \o write_u16(t.addr.ip[7]) \o write_u16(t.addr.ip[8])
                        \o write_u16(t.addr.port)]
      [] t.t = "Domain" ->
            IF Len(t.host) > U8Max
            THEN [tag |-> "Err", kind |-> "InvalidInput", msg |-> "domain name too long",
                  packet |-> <<5, 1, 0, 3>>]
            ELSE [tag |-> "Ok", kind |-> "", msg |-> "",
                  packet |-> <<5, 1, 0, 3>> \o <<Len(t.host)>> \o t.host
                                            \o write_u16(t.port)]

\* the status byte of the reply, the match of lib.rs:323-337
lib_status_error(code) ==
    CASE code = 1 -> DecodeErr("Other", "general SOCKS server failure")
      [] code = 2 -> DecodeErr("Other", "connection not allowed by ruleset")
      [] code = 3 -> DecodeErr("Other", "network unreachable")
      [] code = 4 -> DecodeErr("Other", "host unreachable")
      [] code = 5 -> DecodeErr("Other", "connection refused")
      [] code = 6 -> DecodeErr("Other", "TTL expired")
      [] code = 7 -> DecodeErr("Other", "command not supported")
      [] code = 8 -> DecodeErr("Other", "address kind not supported")
      [] OTHER -> DecodeErr("Other", "unknown error")

\* the address of the reply, lib.rs:343-362, on the bytes b behind the
\* reserved byte
lib_reply_addr(b) ==
    IF Len(b) < 1 THEN Short
    ELSE CASE b[1] = 1 ->
                IF Len(b) < 7 THEN Short
                ELSE Decoded(V4(Ipv4FromU32(read_u32(SubSeq(b, 2, 5))),
                                read_u16(SubSeq(b, 6, 7))), 10)
           [] b[1] = 4 ->
                IF Len(b) < 19 THEN Short
                ELSE Decoded(V6([i \in 1..8 |-> read_u16(SubSeq(b, 2 * i, 2 * i + 1))],
                                read_u16(SubSeq(b, 18, 19)), 0, 0), 22)
           [] OTHER -> DecodeErr("Other", "unsupported address type")

\* the decoding of the reply, lib.rs:319-362, on the bytes b read so far
lib_response(b) ==
    IF Len(b) < 1 THEN Short
    ELSE IF b[1] # 5 THEN DecodeErr("InvalidData", "invalid response version")
    ELSE IF Len(b) < 2 THEN Short
    ELSE IF b[2] # 0 THEN lib_status_error(b[2])
    ELSE IF Len(b) < 3 THEN Short
    ELSE IF b[3] # 0 THEN DecodeErr("InvalidData", "invalid reserved byte")
    ELSE lib_reply_addr(Drop(b, 3))

\* lib.rs:319-367: the BufReader of lib.rs:270 goes on from where the
\* negotiation left it, one of Q; socket.into_inner() drops what it holds
LibReply(s, S, I, Q) ==
    IF I = {} THEN {Failed(s, UnexpectedEof)}
    ELSE Replied(s, lib_response(SubSeq(S, 3, 2 + Least(I))), S, 2 + Least(I),
                 Fills(Q, 2, 2 + Least(I), Len(S)))

\* lib.rs:290-319, p being the request packet
LibRequest(p, S, Q) ==
    IF p.tag = "Err" THEN {Failed(<< <<5, 1, 0>> >>, Error(p.kind, p.msg))}
    ELSE LibReply(<< <<5, 1, 0>>, p.packet >>, S,
                  {i \in 0..(Len(S) - 2) : lib_response(SubSeq(S, 3, 2 + i)).tag # "Short"}, Q)

\* lib.rs:274-317, neg being the outcome of the negotiation, read through the
\* BufReader while only a1 was sent
LibNegotiation(t, neg, a1, a2) ==
    IF neg.tag = "Err" THEN {Failed(<< <<5, 1, 0>> >>, ErrorOf(neg))}
    ELSE LibRequest(lib_request(t), a1 \o a2, Fills({0}, 0, 2, Len(a1)))

\* Socks5Stream::connect of lib.rs once connected, t being what
\* to_target_addr gave: the outcomes it may have
LibConnect(t, a1, a2) ==
    IF t.tag = "Err" THEN {Failed(<<>>, Error(t.kind, t.msg))}
    ELSE LibNegotiation(t.t, lib_negotiation(a1), a1, a2)

\* a granted reply and 2 bytes of the target behind it
GrantedThenData == Reply5(5, 0, 0, V4(<<1, 0, 0, 1>>, 80)) \o DataOf(2)

\* a proxy's two sendings
ProxyScript(a1, a2) == [a1 |-> a1, a2 |-> a2]

\* proxies that answer each message after they got it; proxies that send
\* their reply, or part of it, with the answer to the negotiation; proxies
\* that close early
ProxyScripts ==
    {ProxyScript(<<5, 0>>, r \o d) : r \in Replies5, d \in {<<>>, DataOf(1), DataOf(2)}}
    \cup {ProxyScript(n, <<>>) : n \in (NegReplies \ {<<5, 0>>}) \cup {<<>>, <<5>>}}
    \cup {ProxyScript(<<5, 0>> \o Take(GrantedThenData, k), Drop(GrantedThenData, k)) :
            k \in 1..Len(GrantedThenData)}
    \cup {ProxyScript(<<5, 0>> \o Take(r, k), Drop(r, k)) :
            r \in {Reply5(5, 0, 0, V6(<<1280, 1, 258, 772, 80, 0, 0, 9>>, 8080, 0, 0)) \o DataOf(1),
                   Reply5(5, 5, 0, V4(<<0, 0, 0, 0>>, 0)), <<5, 0, 0, 1, 1, 0>>},
            k \in {1, 3, 6}}

InitEquiv ==
    /\ op = "none"
    /\ input \in Inputs
    /\ userid = <<>>
    /\ pc = "idle"
    /\ target = NoTarget
    /\ conn = "none"
    /\ opened = 0
    /\ sent = <<>>
    /\ inflight = <<>>
    /\ rcvbuf = <<>>
    /\ peerClosed = FALSE
    /\ pphase = "neg"
    /\ \E ps \in ProxyScripts : psent = [NoneSent EXCEPT !.neg = ps.a1, !.rep = ps.a2]
    /\ bufr = <<>>
    /\ acc = <<>>
    /\ discarded = <<>>
    /\ result = NoResult
    /\ handle = NoHandle
    /\ accepts = 0
    /\ appRead = <<>>
    /\ udpIn = NoDgramIn
    /\ ubuf = <<>>
    /\ uresult = NoDecoded
    /\ udpOut = NoDgramOut
    /\ usent = NoDecoded
    /\ bindAddr = NoAddr
    /\ cTarget = NoTarget
    /\ cPacket = NoPacket
    /\ cDecoded = NoDecoded

\* a call returns with the outcome o
Returns(name, o) ==
    /\ op' = name
    /\ sent' = o.sent
    /\ result' = o.result
    /\ handle' = o.handle
    /\ rcvbuf' = o.unread
    /\ discarded' = o.lost
    /\ pc' = IF o.result.tag = "Err" THEN "failed" ELSE "ready"
    /\ conn' = IF o.result.tag = "Err" THEN "closed" ELSE "open"
    /\ opened' = 1
    /\ pphase' = "end"
    /\ UNCHANGED <<input, userid, target, inflight, peerClosed, psent, bufr, acc,
                   accepts, appRead>>
    /\ UNCHANGED <<dvars, cvars>>

\* Socks5Stream::connect(proxy, input) of v5.rs
ConnectV5 ==
    /\ pc = "idle"
    /\ \E o \in V5Connect(to_target_addr(input), psent.neg, psent.rep) :
         Returns("connect", o)

\* Socks5Stream::connect(proxy, input) of lib.rs
ConnectLib ==
    /\ pc = "idle"
    /\ \E o \in LibConnect(to_target_addr(input), psent.neg, psent.rep) :
         Returns("lib_connect", o)

NextEquiv == ConnectV5 \/ ConnectLib

SpecEquiv == InitEquiv /\ [][NextEquiv]_vars

----------------------------------------------------------------------------
(* The claims *)

DomainTooLong == Error("InvalidInput", "domain name too long")

\* a SOCKS5 connect or bind with a Domain target of more than 255 bytes
LongDomainCall ==
    /\ op \in {"connect", "bind"}
    /\ input.form = "Target"
    /\ input.t.t = "Domain"
    /\ Len(input.t.host) > U8Max

\* C1: a SOCKS5 connect or bind with a Domain target longer than 255 bytes
\* writes no byte at all to the proxy, and once the proxy is connected the
\* call fails with "domain name too long".
C1_LongDomainFailsBeforeAnyWrite ==
    LongDomainCall =>
        /\ sent = <<>>
        /\ (pc = "failed" /\ opened > 0) => result = DomainTooLong

\* the input errors: an IPv6 target given to SOCKS4, a string that does not
\* normalize
IsInputError(e) ==
    /\ e.tag = "Err"
    /\ e.kind = "InvalidInput"
    /\ e.msg \in {"SOCKS4 does not support IPv6", "invalid socket address",
                  "invalid port value"}

\* C2: a call that returns an input error (IPv6 target with SOCKS4, a target
\* string that does not normalize) has opened no connection to the proxy and
\* has written no byte.
C2_InputErrorsBeforeAnyIO ==
    (pc = "failed" /\ IsInputError(result)) => (opened = 0 /\ sent = <<>>)

\* C3: after a successful SOCKS5 CONNECT, however the proxy's bytes are cut
\* into segments, the bytes the session's reads return, followed by those
\* still unread, are exactly the bytes the proxy sent after its reply.
C3_SessionIsTransparentPipe ==
    (op = "connect" /\ handle.kind = "stream") =>
        appRead \o rcvbuf \o inflight = psent.data

\* C4: in a BIND flow the listener's proxy_addr is the address of the proxy's
\* first reply, and the session of a successful accept carries the address of
\* the proxy's second reply.
C4_AcceptCarriesSecondReplyAddress ==
    /\ (op = "bind" /\ handle.kind = "listener") =>
          \E a \in ProxyAddrs :
              psent.rep = Reply5(5, 0, 0, a) /\ handle.proxy_addr = a
    /\ (op = "bind" /\ handle.kind = "stream") =>
          \E a \in PeerAddrs :
              psent.rep2 = Reply5(5, 0, 0, a) /\ handle.proxy_addr = a

\* C5: BIND is Listener -> Session through accept alone: a listener is
\* accepted at most once, and accept opens no connection and writes nothing;
\* it reads from the connection of the BIND request, and the session it
\* yields holds that connection, still open.
C5_AcceptReusesTransport ==
    [][ /\ accepts' <= 1
        /\ (accepts' # accepts) =>
              (handle.kind = "listener" /\ pc' = "accepting" /\ handle'.kind = "local")
        /\ (handle.kind = "listener" /\ handle'.kind # "listener") =>
              (accepts' = accepts + 1 \/ handle' = NoHandle)
        /\ (op = "bind" /\ handle'.kind = "stream") =>
              (accepts' = 1 /\ conn' = "open" /\ pc \in {"accepting", "ready"})
        /\ (pc' = "accepting" \/ pc = "accepting") =>
              /\ opened' = opened /\ opened = 1
              /\ sent' = sent
              /\ conn = "open"
        /\ (pc = "accepting" /\ pc' = "ready") =>
              LET b == IF bufr # <<>> THEN Head(bufr) ELSE Head(rcvbuf)
                  r == read_response(Append(acc, b))
              IN  r.tag = "Ok" /\ handle' = Stream(r.addr)
      ]_vars

\* a BIND whose accept has returned a session
C5_Witness == op = "bind" /\ accepts = 1 /\ handle.kind = "stream" /\ pc = "ready"

\* a datagram of 3 zero header bytes, the encoding of an IPv4 or IPv6
\* address and a payload has been received
WellFormedDgramIn ==
    /\ udpIn.set
    /\ udpIn.dgram.hdr = <<0, 0, 0>>
    /\ udpIn.dgram.addr # NoAddr

\* C6: for a well-formed datagram whose payload is no longer than the
\* caller's buffer, recv_from returns the payload length and the address of
\* the header (not the relay's), and the caller's buffer starts with exactly
\* the payload; the scratch buffer holds the whole datagram.
C6_RecvFromStripsHeader ==
    (WellFormedDgramIn /\ Len(udpIn.dgram.payload) <= udpIn.buflen) =>
        LET payload == udpIn.dgram.payload
        IN  /\ uresult = Decoded(udpIn.dgram.addr, Len(payload))
            /\ uresult.addr # udpIn.from
            /\ Len(ubuf) = udpIn.buflen
            /\ Take(ubuf, Len(payload)) = payload
            /\ Drop(ubuf, Len(payload)) = Drop(FreshBuf(udpIn.buflen), Len(payload))
            /\ Len(DgramBytes(udpIn.dgram)) <= udpIn.buflen + MAX_ADDR_LEN + 3

\* a datagram with an IPv6 source whose payload fills the caller's buffer
C6_Witness ==
    /\ WellFormedDgramIn
    /\ udpIn.dgram.addr.v = 6
    /\ udpIn.buflen > 0
    /\ Len(udpIn.dgram.payload) = udpIn.buflen
    /\ uresult.tag = "Ok"

\* C7, as stated: recv_from fails when the caller's buffer is smaller than
\* the payload of the datagram.
C7_RecvFromFailsOnSmallBuffer ==
    (WellFormedDgramIn /\ Len(udpIn.dgram.payload) > udpIn.buflen) =>
        uresult.tag = "Err"

\* C7, amended: when the caller's buffer is smaller than the payload,
\* recv_from succeeds: it fills the buffer with the first bytes of the
\* payload and returns the buffer's length with the address of the header.
C7_RecvFromTruncatesToBuffer ==
    (WellFormedDgramIn /\ Len(udpIn.dgram.payload) > udpIn.buflen) =>
        /\ uresult = Decoded(udpIn.dgram.addr, udpIn.buflen)
        /\ ubuf = Take(udpIn.dgram.payload, udpIn.buflen)

\* a payload of 2 bytes or more received into a shorter, non-empty buffer
C7_Witness ==
    /\ WellFormedDgramIn
    /\ udpIn.buflen > 0
    /\ Len(udpIn.dgram.payload) > udpIn.buflen
    /\ uresult.tag = "Ok"

\* C8: read_addr of the bytes write_addr produced gives back the address of
\* an Ip target exactly, and succeeds for a Domain target of at most 255
\* bytes.
C8_AddrRoundTrip ==
    (cPacket.tag = "Ok" /\ cDecoded.tag # "None") =>
        /\ cDecoded.tag = "Ok"
        /\ cTarget.t = "Ip" => cDecoded.addr = cTarget.addr

\* C9: a SOCKS4 reply with byte 0 = 0 and status 90 makes connect succeed
\* with proxy_addr's port the big-endian value of bytes 2-3 and its address
\* bytes 4-7 in order; a reply whose byte 0 is not 0 is rejected as malformed
\* whatever its status.
C9_Socks4ReplyDecoding ==
    LET r == psent.rep
    IN  (op = "s4connect" /\ r # <<>> /\ pc # "s4_response") =>
            IF r[1] # 0
            THEN /\ result = Error("InvalidData", "invalid response version")
                 /\ handle = NoHandle
            ELSE r[2] = 90 =>
                    /\ result = OkResult
                    /\ pc = "ready" =>
                          handle = Stream(V4(<<r[5], r[6], r[7], r[8]>>, r[3] * 256 + r[4]))

\* the reply 00 5A 00 50 C0 A8 01 01 has given 192.168.1.1:80
C9_Witness ==
    /\ op = "s4connect"
    /\ psent.rep = <<0, 90, 0, 80, 192, 168, 1, 1>>
    /\ handle = Stream(V4(<<192, 168, 1, 1>>, 80))

KnownSocks4Codes == {91, 92, 93}

KnownSocks5Codes == 1..8

\* C10: a reply with a status other than success yields no session but an
\* error, which differs from the error of every other status code whenever
\* one of the two codes is a known one: known codes have errors of their
\* own, and the error of an unknown code is that of no known code.
C10_StatusErrorsDistinct ==
    LET r == psent.rep
    IN  /\ (op = "s4connect" /\ r # <<>> /\ pc # "s4_response" /\ r[1] = 0 /\ r[2] # 90) =>
              /\ handle = NoHandle
              /\ result.tag = "Err"
              /\ \A c \in 0..255 :
                    (c # r[2] /\ c # 90 /\ (c \in KnownSocks4Codes \/ r[2] \in KnownSocks4Codes))
                        => ErrorOf(Socks4StatusError(c)) # result
        /\ (op \in Socks5Ops /\ r # <<>> /\ pc # "response" /\ r[1] = 5 /\ r[2] # 0) =>
              /\ handle = NoHandle
              /\ result.tag = "Err"
              /\ \A c \in 1..255 :
                    (c # r[2] /\ (c \in KnownSocks5Codes \/ r[2] \in KnownSocks5Codes))
                        => ErrorOf(Socks5StatusError(c)) # result

\* a SOCKS5 reply with the unknown status 9 and a SOCKS4 reply with a known one
C10_Witness ==
    /\ pc = "failed"
    /\ \/ op = "connect" /\ psent.rep # <<>> /\ psent.rep[1] = 5 /\ psent.rep[2] = 9
       \/ op = "s4connect" /\ psent.rep # <<>> /\ psent.rep[1] = 0 /\ psent.rep[2] = 92

\* the two bytes of a port, high byte first
PortBytes(p) == <<p \div 256, p % 256>>

\* C11: the one message Socks4Stream::connect writes is 04 01, the port
\* big-endian, the 4 address bytes (IP target) or 00 00 00 01 (Domain target),
\* the userid, a NUL and, for a Domain target only, the domain bytes and a
\* second NUL; an IP request ends with the first NUL.
C11_Socks4RequestBytes ==
    (op = "s4connect" /\ sent # <<>>) =>
        /\ Len(sent) = 1
        /\ target.t = "Ip" =>
              /\ target.addr.v = 4
              /\ sent[1] = <<4, 1>> \o PortBytes(target.addr.port) \o target.addr.ip
                                   \o userid \o <<0>>
              /\ Len(sent[1]) = 9 + Len(userid)
        /\ target.t = "Domain" =>
              /\ sent[1] = <<4, 1>> \o PortBytes(target.port) \o <<0, 0, 0, 1>>
                                   \o userid \o <<0>> \o target.host \o <<0>>
              /\ Len(sent[1]) = 10 + Len(userid) + Len(target.host)

\* a SOCKS4A request for a domain name, with a userid
C11_Witness ==
    /\ op = "s4connect"
    /\ target.t = "Domain"
    /\ userid # <<>>
    /\ Len(sent) = 1

\* the failure of each answer to the method negotiation other than 05 00
NegotiationError(neg) ==
    IF neg[1] # 5 THEN Error("InvalidData", "invalid response version")
    ELSE IF neg[2] = 255 THEN Error("Other", "no acceptable auth methods")
    ELSE Error("InvalidData", "unknown auth method")

\* C12: the first message a SOCKS5 call writes is 05 01 00; it then reads the
\* 2 bytes of the proxy's answer and no more, and writes its request, the
\* second and last message, only when they are 05 00; after any other answer
\* the call fails with the failure of that answer, no request is written and
\* no handle is returned.
C12_NegotiationGatesRequest ==
    op \in Socks5Ops =>
        /\ sent # <<>> => sent[1] = <<5, 1, 0>>
        /\ Len(sent) <= 2
        /\ pc \in {"greeting", "neg_version"} => rcvbuf \o inflight = psent.neg
        /\ pc = "neg_method" => rcvbuf \o inflight = Tail(psent.neg)
        /\ pc = "request" => (psent.neg = <<5, 0>> /\ rcvbuf \o inflight = <<>>)
        /\ Len(sent) = 2 => psent.neg = <<5, 0>>
        /\ (psent.neg # <<>> /\ psent.neg # <<5, 0>>) =>
              /\ Len(sent) = 1
              /\ handle = NoHandle
              /\ pc \in {"neg_version", "neg_method", "failed"}
              /\ pc = "failed" => result = NegotiationError(psent.neg)

\* a call has failed on the answer 05 FF, another method or another version
C12_Witness ==
    /\ op \in Socks5Ops
    /\ pc = "failed"
    /\ psent.neg \in {<<5, 255>>, <<5, 2>>, <<4, 0>>}
    /\ result = NegotiationError(psent.neg)

\* the 16 bytes of eight 16-bit groups, each high byte first
GroupBytes(segs) ==
    [i \in 1..16 |-> IF i % 2 = 1 THEN segs[(i + 1) \div 2] \div 256
                                  ELSE segs[i \div 2] % 256]

\* the encoding of a target as the spec words it
TargetEncoding(t) ==
    CASE t.t = "Ip" /\ t.addr.v = 4 -> <<1>> \o t.addr.ip \o PortBytes(t.addr.port)
      [] t.t = "Ip" /\ t.addr.v = 6 -> <<4>> \o GroupBytes(t.addr.ip) \o PortBytes(t.addr.port)
      [] t.t = "Domain" -> <<3, Len(t.host)>> \o t.host \o PortBytes(t.port)

\* the command byte of each entry point as the spec words it
CommandByte(o) == CASE o = "connect" -> 1 [] o = "bind" -> 2 [] o = "associate" -> 3

\* C13: the request a SOCKS5 call writes is 05, the command byte of its entry
\* point (1 connect, 2 bind, 3 associate), 00 and the encoding of the target:
\* 01 + 4 bytes + port, 04 + 16 bytes + port, or 03 + length + name + port.
C13_Socks5RequestBytes ==
    (op \in Socks5Ops /\ Len(sent) >= 2) =>
        /\ sent[2] = <<5, CommandByte(op), 0>> \o TargetEncoding(target)
        /\ target.t = "Domain" => Len(target.host) <= 255
        /\ Len(sent[2]) = CASE target.t = "Domain" -> 7 + Len(target.host)
                            [] target.t = "Ip" /\ target.addr.v = 4 -> 10
                            [] target.t = "Ip" /\ target.addr.v = 6 -> 22

\* a CONNECT to the IPv6 address 2001:db8::1 or to a name of 255 bytes has
\* written its request
C13_Witness ==
    /\ Len(sent) = 2
    /\ \/ op = "connect" /\ target.t = "Ip" /\ target.addr.v = 6
                         /\ sent[2][5] = 32 /\ sent[2][6] = 1
       \/ op = "connect" /\ target.t = "Domain" /\ Len(target.host) = 255

\* a whole reply that the spec accepts: version 05, status 0, reserved 00 and
\* address type 1 (10 bytes in all) or 4 (22 bytes)
ReplyAccepted(r) ==
    /\ Len(r) >= 4
    /\ r[1] = 5 /\ r[2] = 0 /\ r[3] = 0
    /\ \/ r[4] = 1 /\ Len(r) >= 10
       \/ r[4] = 4 /\ Len(r) >= 22

\* the bound address of an accepted reply, byte by byte
ReplyAddress(r) ==
    IF r[4] = 1
    THEN V4(<<r[5], r[6], r[7], r[8]>>, r[9] * 256 + r[10])
    ELSE V6([i \in 1..8 |-> r[3 + 2 * i] * 256 + r[4 + 2 * i]], r[21] * 256 + r[22], 0, 0)

\* C14: when connect, bind or associate has read the reply to its request, it
\* goes on with the address of the reply (4 or 16 address bytes in order, port
\* big-endian) if the reply has version 05, status 0, reserved 00 and address
\* type 1 or 4, and fails with no handle for every other reply, one of
\* address type 3 included.
C14_ReplyAcceptedIffWellFormed ==
    [][ (pc = "response" /\ pc' # "response") =>
            IF ReplyAccepted(psent.rep)
            THEN /\ pc' \in {"ready", "udp_bind"}
                 /\ result'.tag # "Err"
                 /\ handle'.proxy_addr = ReplyAddress(psent.rep)
            ELSE /\ pc' = "failed"
                 /\ result'.tag = "Err"
                 /\ handle' = NoHandle
      ]_vars

\* the reply 05 00 00 01 01 00 00 01 00 50 has given 1.0.0.1:80
C14_Witness ==
    /\ op = "connect"
    /\ pc = "ready"
    /\ psent.rep = <<5, 0, 0, 1, 1, 0, 0, 1, 0, 80>>
    /\ handle = Stream(V4(<<1, 0, 0, 1>>, 80))

\* C15: Socks5Datagram::bind asks for the target 0.0.0.0:0 whatever local
\* address the caller gave, the datagram object's proxy_addr is the address
\* of the reply, and send_to sends to that address, not to the target named
\* in the call.
C15_AssociateUsesRelayEndpoint ==
    op = "associate" =>
        /\ input = FromTarget(Ip(V4(<<0, 0, 0, 0>>, 0)))
        /\ Len(sent) >= 2 => sent[2] = <<5, 3, 0, 1, 0, 0, 0, 0, 0, 0>>
        /\ handle.kind = "datagram" =>
              /\ ReplyAccepted(psent.rep)
              /\ handle.proxy_addr = ReplyAddress(psent.rep)
        /\ udpOut.set =>
              /\ udpOut.to = ReplyAddress(psent.rep)
              /\ udpOut.target.t.t = "Ip" => udpOut.to # udpOut.target.t.addr

\* bound to 127.0.0.1:5353, a datagram for 192.168.1.1:80 has gone to the
\* relay at 1.0.0.1:80
C15_Witness ==
    /\ op = "associate"
    /\ bindAddr = V4(<<127, 0, 0, 1>>, 5353)
    /\ udpOut.set
    /\ udpOut.target = FromTarget(Ip(Target4))
    /\ udpOut.to = V4(<<1, 0, 0, 1>>, 80)

\* C16: while the caller holds a Socks5Datagram the TCP connection of its
\* handshake is open, and no step with the datagram object writes to it or
\* reads from it; the object goes away only by being dropped, which closes
\* the connection.
C16_ControlConnectionHeldOpen ==
    [][ /\ handle.kind = "datagram" => conn = "open"
        /\ (handle.kind = "datagram" /\ handle'.kind = "datagram") =>
              /\ conn' = "open"
              /\ sent' = sent
              /\ Len(rcvbuf') >= Len(rcvbuf)
              /\ bufr' = bufr /\ acc' = acc /\ appRead' = appRead
        /\ (handle.kind = "datagram" /\ handle'.kind # "datagram") =>
              /\ handle' = NoHandle
              /\ pc' = "dropped"
              /\ conn' = "closed"
      ]_vars

\* a datagram object that has sent and received was dropped
C16_Witness ==
    /\ op = "associate"
    /\ pc = "dropped"
    /\ conn = "closed"
    /\ usent.tag = "Ok"
    /\ uresult.tag = "Ok"

\* C17: a call that has failed has returned an error and no handle, and its
\* connection, if it had opened one, is closed; a call that has returned
\* holds the whole handle of its entry point on an open connection; in
\* between the caller holds nothing.
C17_NoPartialSuccess ==
    /\ pc = "failed" =>
          /\ result.tag = "Err"
          /\ handle = NoHandle
          /\ conn = IF opened > 0 THEN "closed" ELSE "none"
    /\ pc = "ready" =>
          /\ result = OkResult
          /\ conn = "open"
          /\ handle.proxy_addr # NoAddr
          /\ handle.kind = CASE op \in {"s4connect", "connect"} -> "stream"
                             [] op = "bind" -> IF accepts = 0 THEN "listener" ELSE "stream"
                             [] op = "associate" -> "datagram"
    /\ pc \notin {"ready"} => handle.kind \in {"none", "local"}
    /\ handle.kind = "local" => pc \in {"udp_bind", "accepting"}

\* the local UDP bind has failed after a granted ASSOCIATE
C17_Witness ==
    /\ op = "associate"
    /\ pc = "failed"
    /\ psent.rep \in GrantedReplies5
    /\ result = Error("AddrInUse", "address in use")
    /\ conn = "closed"

\* the target of a host of the table with a port: Ip for a literal, Domain
\* with the host as it is for the rest
HostTarget(h, port) ==
    CASE h.class = "v4" -> Ip(V4(h.ip, port))
      [] h.class = "v6" -> Ip(V6(h.ip, port, 0, 0))
      [] OTHER -> Domain(h.s, port)

\* C18, as stated: a "host:port" string with a valid port, and a (host, port)
\* pair, normalize to Ip when the host parses as an IPv4 or IPv6 address and
\* to Domain(host, port) otherwise.
C18_HostDecidesTarget ==
    pc = "normalized" =>
        /\ \A h \in NormHosts, p \in PortSegs :
              (input.form = "Str" /\ p.ok /\ input.s = Joined(h.s, p.s)) =>
                  (result = OkResult /\ target = HostTarget(h, p.val))
        /\ \A h \in NormHosts :
              (input.form = "Pair" /\ input.s = h.s) =>
                  (result = OkResult /\ target = HostTarget(h, input.port))

\* C18, amended: a string that is a socket address literal, "a.b.c.d:port" or
\* "[v6]:port" with a port of digits only, normalizes to Ip; any other
\* "host:port" string with a valid port, and a (host, port) pair, normalizes
\* to Ip when the host parses as an IPv4 or IPv6 address and to
\* Domain(host, port) otherwise, so that the pair ("[::1]", 80) is a Domain.
C18_LiteralOrHostDecidesTarget ==
    pc = "normalized" =>
        /\ \A h \in NormHosts, p \in PortSegs :
              (input.form = "Str" /\ p.ok /\ input.s = Joined(h.s, p.s)) =>
                  /\ result = OkResult
                  /\ target = IF h.class = "bracket" /\ p.plain
                              THEN Ip(V6(h.ip, p.val, 0, 0))
                              ELSE HostTarget(h, p.val)
        /\ \A h \in NormHosts :
              (input.form = "Pair" /\ input.s = h.s) =>
                  (result = OkResult /\ target = HostTarget(h, input.port))

\* "[::1]:80" has been normalized to the address ::1, port 80
C18_Witness ==
    /\ pc = "normalized"
    /\ input = FromStr(<<91, 58, 58, 49, 93, 58, 56, 48>>)
    /\ target = Ip(V6(<<0, 0, 0, 0, 0, 0, 0, 1>>, 80, 0, 0))

\* C19: a string fails to normalize exactly when it has no ':' ("invalid
\* socket address") or when the segment after its last ':' is no number in
\* 0..65535 ("invalid port value"); a string that normalizes to a Domain has
\* as host all that stands before its last ':'.
C19_NormalizeFailsOnSeparatorOrPort ==
    (pc = "normalized" /\ input.form = "Str") =>
        /\ input.s \in NoColonStrs =>
              result = Error("InvalidInput", "invalid socket address")
        /\ \A h \in NormHosts, p \in PortSegs :
              input.s = Joined(h.s, p.s) =>
                  /\ result.tag = "Err" <=> ~p.ok
                  /\ ~p.ok => result = Error("InvalidInput", "invalid port value")
                  /\ (p.ok /\ target.t = "Domain") =>
                        (target.host = h.s /\ target.port = p.val)

\* "g:h:80" has been normalized to the domain "g:h", port 80
C19_Witness ==
    /\ pc = "normalized"
    /\ input = FromStr(<<103, 58, 104, 58, 56, 48>>)
    /\ target = Domain(<<103, 58, 104>>, 80)

\* C20: the datagram of send_to is 00 00, 00, the encoding of the target and
\* the payload as it is: a header of 10 bytes for IPv4, 22 for IPv6 and 7 plus
\* the length of the name for a Domain; for a name of more than 255 bytes
\* send_to fails and sends nothing.
C20_SendToDatagramBytes ==
    /\ udpOut.set =>
          LET t == udpOut.target.t
          IN  /\ udpOut.target.form = "Target"
              /\ udpOut.data = <<0, 0, 0>> \o TargetEncoding(t) \o udpOut.payload
              /\ Len(udpOut.data) - Len(udpOut.payload) =
                    CASE t.t = "Domain" -> 7 + Len(t.host)
                      [] t.t = "Ip" /\ t.addr.v = 4 -> 10
                      [] t.t = "Ip" /\ t.addr.v = 6 -> 22
    /\ (usent.tag # "None" /\ udpOut.target.t.t = "Domain"
            /\ Len(udpOut.target.t.host) > 255) =>
          /\ usent = DecodeErr("InvalidInput", "domain name too long")
          /\ ~udpOut.set

\* a payload of 1 byte has been sent for a name of 255 bytes: 263 bytes
C20_Witness ==
    /\ udpOut.set
    /\ udpOut.target.t.t = "Domain"
    /\ Len(udpOut.target.t.host) = 255
    /\ Len(udpOut.payload) = 1
    /\ Len(udpOut.data) = 263

\* C21: in a BIND, whenever the second reply was sent before accept is
\* called, it is whole and unread when the caller holds the listener: no byte
\* of it was taken or dropped with the first reply; and the session accept
\* returns carries the address of the second reply.
C21_SecondReplySurvivesFirstDecode ==
    op = "bind" =>
        /\ (handle.kind = "listener" /\ psent.rep2 # <<>>) =>
              /\ discarded = <<>>
              /\ rcvbuf \o inflight = psent.rep2 \o psent.data
        /\ (handle.kind = "stream" /\ pc = "ready") =>
              /\ ReplyAccepted(psent.rep2)
              /\ handle.proxy_addr = ReplyAddress(psent.rep2)

\* a datagram the spec has recv_from reject: a reserved byte or the fragment
\* byte is not zero, the address type is neither 1 nor 4, or the bytes end
\* before the header and the address do
MalformedDgram(b) ==
    \/ Len(b) < 4
    \/ b[1] # 0 \/ b[2] # 0
    \/ b[3] # 0
    \/ b[4] \notin {1, 4}
    \/ b[4] = 1 /\ Len(b) < 10
    \/ b[4] = 4 /\ Len(b) < 22

\* C22: recv_from returns an error for a datagram whose reserved bytes are
\* not both zero, whose fragment byte is not zero, whose address type is not
\* 1 or 4 or which is too short for its header and address, and the caller's
\* buffer is then as it was before the call.
C22_RecvFromRejectsMalformed ==
    (udpIn.set /\ MalformedDgram(DgramBytes(udpIn.dgram))) =>
        /\ uresult.tag = "Err"
        /\ ubuf = FreshBuf(udpIn.buflen)
        /\ udpIn.dgram.hdr \in {<<0, 1, 0>>, <<1, 0, 0>>} =>
              uresult = DecodeErr("InvalidData", "invalid reserved bytes")
        /\ udpIn.dgram.hdr = <<0, 0, 1>> =>
              uresult = DecodeErr("InvalidData", "invalid fragment id")

\* a datagram with fragment byte 1 and a payload was refused, the caller's
\* buffer of 2 bytes untouched
C22_Witness ==
    /\ udpIn.set
    /\ udpIn.dgram.hdr = <<0, 0, 1>>
    /\ udpIn.dgram.payload # <<>>
    /\ udpIn.buflen = 2
    /\ uresult = DecodeErr("InvalidData", "invalid fragment id")
    /\ ubuf = FreshBuf(2)

\* C23: Socks4Stream::connect has written its one request before it reads a
\* byte; it takes from the proxy's stream the 8 bytes of the reply and no
\* more, so that all the proxy sent behind them, in whatever segments, is what
\* the session's reads return first, nothing lost.
C23_Socks4ReadsExactlyEight ==
    op = "s4connect" =>
        /\ (acc # <<>> \/ pc = "ready") => Len(sent) = 1
        /\ pc \in {"s4_request", "normalize"} => (acc = <<>> /\ sent = <<>>)
        /\ discarded = <<>> /\ bufr = <<>>
        /\ pc = "s4_response" => acc \o rcvbuf \o inflight = psent.rep \o psent.data
        /\ handle.kind = "stream" =>
              /\ Len(psent.rep) = 8
              /\ appRead \o rcvbuf \o inflight = psent.data

\* a SOCKS4 session whose reads have returned all the data the proxy sent
\* behind its reply
C23_Witness ==
    /\ op = "s4connect"
    /\ handle.kind = "stream"
    /\ psent.data # <<>>
    /\ appRead = psent.data

\* the positions of a call that has not returned
Running ==
    {"tcp_connect", "normalize", "greeting", "neg_version", "neg_method", "request",
     "response", "udp_bind", "s4_request", "s4_response", "accepting"}

\* C24: a handshake opens at most one connection, writes at most 2 messages
\* and reads at most the 2 bytes of the method answer and the 22 bytes of a
\* reply (8 with SOCKS4) byte by byte; and when every read gets data or the end
\* of the stream, every call (accept included) returns a handle or an error.
C24_HandshakesTerminate ==
    /\ [](opened <= 1 /\ Len(sent) <= 2 /\ Len(acc) <= 21 /\ accepts <= 1)
    /\ (pc \in Running) ~> (pc \in {"ready", "failed"})

\* accept has returned an error because the stream ended
C24_Witness ==
    /\ op = "bind"
    /\ accepts = 1
    /\ pc = "failed"
    /\ result = UnexpectedEof

\* how many of the proxy's bytes the client has taken from its socket
Consumed ==
    Len(psent.neg) + Len(psent.rep) + Len(psent.rep2) + Len(psent.data)
        - Len(rcvbuf) - Len(inflight)

\* C25: a call opens at most one connection; every write appends one message
\* to what was written, the negotiation first and once, then the request once
\* and only when the 2 bytes of the answer to the negotiation, all the proxy
\* had sent, have been read (SOCKS4: the request alone); and from a failed
\* call no step writes, reads, or opens a connection.
C25_SequentialNeverRetried ==
    [][ /\ opened' <= 1
        /\ opened' # opened => (opened' = 1 /\ pc = "tcp_connect" /\ sent = <<>>)
        /\ sent' # sent =>
              /\ sent' = Append(sent, sent'[Len(sent')])
              /\ conn = "open" /\ opened = 1
              /\ CASE op = "s4connect" -> sent = <<>> /\ Consumed = 0
                   [] op \in Socks5Ops /\ sent = <<>> ->
                        sent'[1] = <<5, 1, 0>> /\ Consumed = 0
                   [] op \in Socks5Ops /\ sent # <<>> ->
                        /\ Len(sent) = 1
                        /\ Take(sent'[2], 3) = <<5, CommandByte(op), 0>>
                        /\ Len(psent.neg) = 2 /\ Consumed = 2
        /\ pc = "failed" =>
              /\ pc' = "failed"
              /\ sent' = sent /\ opened' = opened
              /\ rcvbuf' = rcvbuf /\ acc' = acc /\ bufr' = bufr
              /\ conn' = conn /\ conn # "open"
      ]_vars

\* a CONNECT has failed on the reply to its request, after one connection and
\* the two messages
C25_Witness ==
    /\ op = "connect"
    /\ pc = "failed"
    /\ opened = 1
    /\ Len(sent) = 2
    /\ psent.rep # <<>>
    /\ result = Error("Other", "connection refused")

\* C26: Socks4Stream::connect with a Domain target of any length, longer
\* than 255 bytes included, and a userid of any length writes its request,
\* which ends with the userid, NUL, all the bytes of the name and NUL, and
\* never fails with "domain name too long"; a SOCKS5 connect or bind with a
\* name longer than 255 bytes never writes a request and never returns a
\* handle, and a send_to with such a name sends nothing.
C26_Socks4HasNoLengthLimit ==
    /\ (op = "s4connect" /\ target.t = "Domain") =>
          /\ result # DomainTooLong
          /\ pc # "s4_request" =>
                /\ Len(sent) = 1
                /\ Drop(sent[1], 8) = userid \o <<0>> \o target.host \o <<0>>
    /\ (op \in Socks5Ops /\ target.t = "Domain" /\ Len(target.host) > 255) =>
          /\ Len(sent) <= 1
          /\ handle = NoHandle
          /\ pc \in {"greeting", "neg_version", "neg_method", "request", "failed"}
          /\ (pc = "failed" /\ psent.neg = <<5, 0>>) => result = DomainTooLong
    /\ (usent.tag # "None" /\ udpOut.target.form = "Target"
            /\ udpOut.target.t.t = "Domain" /\ Len(udpOut.target.t.host) > 255) =>
          (usent.tag = "Err" /\ udpOut.data = <<>>)

\* a SOCKS4A session for a name of 256 bytes with a userid of 256 bytes: a
\* request of 522 bytes
C26_Witness ==
    /\ op = "s4connect"
    /\ pc = "ready"
    /\ Len(target.host) = 256
    /\ Len(userid) = 256
    /\ Len(sent) = 1
    /\ Len(sent[1]) = 522

\* what a request was parsed to
Parsed4(ok, t, uid, left) == [ok |-> ok, t |-> t, uid |-> uid, left |-> left]

\* the domain of a SOCKS4A request: the bytes of r up to the NUL at j
Parsed4Domain(port, uid, r, j) ==
    IF j = 0 THEN Parsed4(FALSE, NoTarget, uid, r)
    ELSE Parsed4(TRUE, Domain(Take(r, j - 1), port), uid, Drop(r, j))

\* the part of a request behind the userid: nothing more for an address, a
\* name and a NUL when the address is 0.0.0.x with x not 0
Parsed4Target(port, ip, uid, r) ==
    IF ip[1] = 0 /\ ip[2] = 0 /\ ip[3] = 0 /\ ip[4] # 0
    THEN Parsed4Domain(port, uid, r, FirstIndex(r, 0))
    ELSE Parsed4(TRUE, Ip(V4(ip, port)), uid, r)

\* the part of a request behind the 8-byte header: the userid up to the NUL at k
Parsed4UserId(port, ip, r, k) ==
    IF k = 0 THEN Parsed4(FALSE, NoTarget, <<>>, r)
    ELSE Parsed4Target(port, ip, Take(r, k - 1), Drop(r, k))

\* a proxy's reading of a request by the SOCKS4 / SOCKS4A rules: 04, the
\* command, the port, the address, the userid and a NUL, and after the address
\* 0.0.0.x a name and a NUL
ParseSocks4Request(b) ==
    IF Len(b) < 9 \/ b[1] # 4 \/ b[2] # 1 THEN Parsed4(FALSE, NoTarget, <<>>, b)
    ELSE Parsed4UserId(b[3] * 256 + b[4], SubSeq(b, 5, 8), Drop(b, 8),
                       FirstIndex(Drop(b, 8), 0))

\* C27: the request Socks4Stream::connect has written, read by the SOCKS4 /
\* SOCKS4A rules, gives back the target and the userid of the call and leaves
\* no byte over.
C27_Socks4RequestRoundTrip ==
    (op = "s4connect" /\ Len(sent) = 1) =>
        ParseSocks4Request(sent[1]) = Parsed4(TRUE, target, userid, <<>>)

\* the outcome the spec's order of checks gives a reply r, whole or cut
\* short: the first check that fails decides, and a check is made as soon as
\* its byte is there
FirstFailingCheck(r) ==
    IF r[1] # 5 THEN Error("InvalidData", "invalid response version")
    ELSE IF Len(r) < 2 THEN UnexpectedEof
    ELSE IF r[2] # 0 THEN ErrorOf(Socks5StatusError(r[2]))
    ELSE IF Len(r) < 3 THEN UnexpectedEof
    ELSE IF r[3] # 0 THEN Error("InvalidData", "invalid reserved byte")
    ELSE IF Len(r) < 4 THEN UnexpectedEof
    ELSE IF r[4] \notin {1, 4} THEN Error("Other", "unsupported address type")
    ELSE OkResult

\* C28: the reply is checked in the order version, status, reserved byte,
\* address type and the first failing check gives the error: a wrong version
\* whatever follows, a status other than 0 even with a wrong reserved byte or
\* address type, or with these bytes missing.
C28_ReplyChecksInOrder ==
    (pc # "response") =>
        /\ result = FirstFailingCheck(psent.rep)
        /\ result.tag = "Err" <=> pc = "failed"
        /\ (psent.rep[1] = 5 /\ Len(psent.rep) >= 2 /\ psent.rep[2] # 0) =>
              result.msg \notin {"invalid reserved byte", "unsupported address type",
                                 "invalid response version", UnexpectedEof.msg}

\* the reply 05 01 01 03 .., wrong in its status, its reserved byte and its
\* address type, has failed with the error of status 1
C28_Witness ==
    /\ pc = "failed"
    /\ Len(psent.rep) >= 4
    /\ SubSeq(psent.rep, 1, 4) = <<5, 1, 1, 3>>
    /\ result = Error("Other", "general SOCKS server failure")

\* the length of the header send_to puts before the payload
HeaderLen(t) ==
    CASE t.t = "Domain" -> 7 + Len(t.host)
      [] t.t = "Ip" /\ t.addr.v = 4 -> 10
      [] t.t = "Ip" /\ t.addr.v = 6 -> 22

\* C30: a send_to that succeeds returns the length of the datagram it sent,
\* the length of the payload plus that of the header (10, 22 or 7 plus the
\* length of the name), which is never the length of the payload.
C30_SendToReturnsDatagramLength ==
    usent.tag = "Ok" =>
        /\ udpOut.set
        /\ usent.n = Len(udpOut.data)
        /\ usent.n = Len(udpOut.payload) + HeaderLen(udpOut.target.t)
        /\ usent.n # Len(udpOut.payload)

\* a payload of 1 byte for 192.168.1.1:80: send_to has returned 11
C30_Witness ==
    /\ usent.tag = "Ok"
    /\ udpOut.target = FromTarget(Ip(Target4))
    /\ Len(udpOut.payload) = 1
    /\ usent.n = 11

\* what the call of this behaviour returned
Returned == Outcome(sent, result, handle, rcvbuf, discarded)

====
